---- MODULE Spec2Model ----
(***************************************************************************)
(* NRGrip: the NRG container parser (src/src/metadata) and the generators  *)
(* of the derived artifacts (src/src/cue_sheet.rs, src/src/raw_audio.rs).  *)
(*                                                                         *)
(* The image file is a sequence of bytes (0..255) with a stream position.  *)
(* read_nrg_metadata is modelled as a state machine: version detection,    *)
(* first-chunk offset, then one step per iteration of the chunk            *)
(* dispatcher loop.  The primitive readers and the chunk decoders are      *)
(* operators over (stream, position) that return a result record.          *)
(*                                                                         *)
(* Integers are kept below 2^31: the generated images hold small sizes     *)
(* and offsets, and the one 32-bit field whose sign matters (the CUEX      *)
(* position) is decoded directly into its signed value.                    *)
(***************************************************************************)
EXTENDS Integers, Sequences, FiniteSets, TLC

VARIABLES
    stream,   \* the bytes of the image file (read-only)
    pos,      \* the offset of the file descriptor fd
    pc,       \* where read_nrg_metadata stands
    nm,       \* the NrgMetadata being filled
    err,      \* the NrgError returned (NoError while none)
    trace,    \* history: one entry per iteration of the dispatcher loop
    result,   \* the value returned by a function applied on its own
    img_path, \* the path of the image file given to the generators
    cue_fd,   \* the cue sheet file: None until created, then its lines
    index0_pos, \* write_cue_tracks: position of the last index #0 met
    cue_i,    \* write_cue_tracks: the CUEX track record the loop is at
    args,     \* the arguments of a generator function applied on its own
    in_size,  \* extract_nrg_raw_audio: the size of the image file in_fd
    out_fd,   \* the raw audio file: None until created, then what was
              \* written, as the ranges <<offset, length>> of in_fd copied
    count,    \* extract_nrg_raw_audio: the number of bytes to copy, a u64:
              \* val, or 2^64 - val when the subtraction wrapped
    raw_bytes_read \* copy_raw_audio, copy_raw96_audio: bytes_read

\* The state of the raw audio extractor (with pos, the offset of in_fd)
raw_vars == <<in_size, out_fd, count, raw_bytes_read>>

\* The state of the generators
gen_vars == <<img_path, cue_fd, index0_pos, cue_i, args, raw_vars>>

vars == <<stream, pos, pc, nm, err, trace, result, gen_vars>>

----------------------------------------------------------------------------
(* Bounds of the generated images *)

MaxChunks == 2      \* chunks in the chunk stream of a generated image
MaxPrefix == 1      \* bytes of track data before the first chunk

----------------------------------------------------------------------------
(* Option, Result and NrgError values *)

None == <<>>
Some(v) == <<v>>

\* The raw audio extractor has not been called
RawIdle ==
    /\ in_size = 0
    /\ out_fd = None
    /\ count = [wrapped |-> FALSE, val |-> 0]
    /\ raw_bytes_read = 0

\* The generators have not been called
GenIdle ==
    /\ RawIdle
    /\ img_path = None
    /\ cue_fd = None
    /\ index0_pos = -1
    /\ cue_i = 0
    /\ args = None

\* An NrgError: its variant and the set of values the variant carries
NoError == [kind |-> "none", carries |-> {}]
IoError == [kind |-> "Io", carries |-> {}]
StringError(bytes) == [kind |-> "String", carries |-> {bytes}]
NrgFormat == [kind |-> "NrgFormat", carries |-> {}]
NrgFormatV1 == [kind |-> "NrgFormatV1", carries |-> {}]
NrgChunkId == [kind |-> "NrgChunkId", carries |-> {}]
\* not an NrgError: assert_eq! failed and the thread panicked
PanicAssert == [kind |-> "panic", carries |-> {}]

Ok(v, p) == [ok |-> TRUE, val |-> v, pos |-> p, err |-> NoError]
Fail(e, p) == [ok |-> FALSE, val |-> <<>>, pos |-> p, err |-> e]

Max(a, b) == IF a >= b THEN a ELSE b

----------------------------------------------------------------------------
(* Primitive readers (src/src/metadata/readers.rs) *)

\* fd.read_exact(&mut buf): all n bytes or an I/O error at end of file
read_exact(s, p, n) ==
    IF p + n <= Len(s)
    THEN Ok(SubSeq(s, p + 1, p + n), p + n)
    ELSE Fail(IoError, Max(p, Len(s)))

\* uN::from_be(mem::transmute(buf)): the big-endian value of the buffer
RECURSIVE from_be(_)
from_be(buf) ==
    IF buf = <<>> THEN 0
    ELSE from_be(SubSeq(buf, 1, Len(buf) - 1)) * 256 + buf[Len(buf)]

read_uN(s, p, n) ==
    LET r == read_exact(s, p, n)
    IN  IF r.ok THEN Ok(from_be(r.val), r.pos) ELSE r

\* read_u64 reading the 32-bit offset of a version 1 footer (faulty variant)
read_u64_as_u32(s, p) == read_uN(s, p, 4)

read_u64(s, p) == read_uN(s, p, 8)

read_u32(s, p) == read_uN(s, p, 4)

read_u16(s, p) == read_uN(s, p, 2)

read_u8(s, p) ==
    LET r == read_exact(s, p, 1)
    IN  IF r.ok THEN Ok(r.val[1], r.pos) ELSE r

\* read_u8_bcd with the decoding left out (faulty variant)
read_u8_bcd_raw(s, p) == read_u8(s, p)

\* read_u8_bcd accepting a decoded value of 100 (faulty variant)
read_u8_bcd_le100(s, p) ==
    LET r == read_u8(s, p)
        byte == r.val
        tens == ((byte \div 16) * 10) % 256
        units == ((byte * 16) % 256) \div 16
        value == (tens + units) % 256
    IN  IF ~r.ok THEN r
        ELSE IF value <= 100 THEN Ok(value, r.pos)
        ELSE Ok(byte, r.pos)

\* tens and units in 8-bit arithmetic; the byte itself when the value is > 99
read_u8_bcd(s, p) ==
    LET r == read_u8(s, p)
        byte == r.val
        tens == ((byte \div 16) * 10) % 256
        units == ((byte * 16) % 256) \div 16
        value == (tens + units) % 256
    IN  IF ~r.ok THEN r
        ELSE IF value < 100 THEN Ok(value, r.pos)
        ELSE Ok(byte, r.pos)

\* `read_u32(fd) as i32`: the 4 bytes as a two's complement signed value
read_u32_as_i32(s, p) ==
    LET r == read_exact(s, p, 4)
        b == r.val
    IN  IF ~r.ok THEN r
        ELSE IF b[1] >= 128
        THEN Ok(from_be(<<b[1] - 256, b[2], b[3], b[4]>>), r.pos)
        ELSE Ok(from_be(b), r.pos)

\* The vector truncated at the first null byte
RECURSIVE truncate_at_null(_)
truncate_at_null(bytes) ==
    IF bytes = <<>> \/ bytes[1] = 0 THEN <<>>
    ELSE <<bytes[1]>> \o truncate_at_null(Tail(bytes))

\* CString::into_string: the bytes must be well-formed UTF-8
RECURSIVE into_string_ok(_)
into_string_ok(b) ==
    IF b = <<>> THEN TRUE
    ELSE
    LET c == b[1]
        n == Len(b)
        Cont(i) == i <= n /\ b[i] >= 128 /\ b[i] <= 191
        Rest(k) == into_string_ok(SubSeq(b, k + 1, n))
    IN  IF c < 128 THEN Rest(1)
        ELSE IF c >= 194 /\ c <= 223 THEN Cont(2) /\ Rest(2)
        ELSE IF c = 224
             THEN n >= 3 /\ b[2] >= 160 /\ b[2] <= 191 /\ Cont(3) /\ Rest(3)
        ELSE IF (c >= 225 /\ c <= 236) \/ c = 238 \/ c = 239
             THEN Cont(2) /\ Cont(3) /\ Rest(3)
        ELSE IF c = 237
             THEN n >= 3 /\ b[2] >= 128 /\ b[2] <= 159 /\ Cont(3) /\ Rest(3)
        ELSE IF c = 240
             THEN n >= 4 /\ b[2] >= 144 /\ b[2] <= 191 /\ Cont(3) /\ Cont(4)
                  /\ Rest(4)
        ELSE IF c >= 241 /\ c <= 243
             THEN Cont(2) /\ Cont(3) /\ Cont(4) /\ Rest(4)
        ELSE IF c = 244
             THEN n >= 4 /\ b[2] >= 128 /\ b[2] <= 143 /\ Cont(3) /\ Cont(4)
                  /\ Rest(4)
        ELSE FALSE

\* size bytes, truncated at the first null byte, as a String
read_sized_string(s, p, size) ==
    LET r == read_exact(s, p, size)
        bytes == truncate_at_null(r.val)
    IN  IF ~r.ok THEN r
        ELSE IF into_string_ok(bytes) THEN Ok(bytes, r.pos)
        ELSE Fail(StringError(bytes), r.pos)

\* A 4-byte chunk ID
read_nrg_chunk_id(s, p) == read_sized_string(s, p, 4)

----------------------------------------------------------------------------
(* String literals of the source, as byte sequences *)

NER5 == <<78, 69, 82, 53>>
NERO == <<78, 69, 82, 79>>
END  == <<69, 78, 68, 33>>
CUEX == <<67, 85, 69, 88>>
DAOX == <<68, 65, 79, 88>>
CDTX == <<67, 68, 84, 88>>
ETN2 == <<69, 84, 78, 50>>
SINF == <<83, 73, 78, 70>>
MTYP == <<77, 84, 89, 80>>
DINF == <<68, 73, 78, 70>>
TOCT == <<84, 79, 67, 84>>
RELO == <<82, 69, 76, 79>>

AFNM == <<65, 70, 78, 77>>
VOLM == <<86, 79, 76, 77>>

----------------------------------------------------------------------------
(* Chunk decoders (src/src/metadata/{cuex,daox,sinf,mtyp}.rs) *)

NrgCuexTrack(mode, track_number, index_number, padding, position_sectors) ==
    [mode |-> mode, track_number |-> track_number,
     index_number |-> index_number, padding |-> padding,
     position_sectors |-> position_sectors]

\* One 8-byte track block of the cue sheet
read_nrg_cuex_track(s, p) ==
    LET mode == read_u8(s, p)
        track_number == read_u8_bcd(s, mode.pos)
        index_number == read_u8_bcd(s, track_number.pos)
        padding == read_u8(s, index_number.pos)
        position_sectors == read_u32_as_i32(s, padding.pos)
    IN  IF ~mode.ok THEN mode
        ELSE IF ~track_number.ok THEN track_number
        ELSE IF ~index_number.ok THEN index_number
        ELSE IF ~padding.ok THEN padding
        ELSE IF ~position_sectors.ok THEN position_sectors
        ELSE Ok(NrgCuexTrack(mode.val, track_number.val, index_number.val,
                             padding.val, position_sectors.val),
                position_sectors.pos)

\* while bytes_read < chunk.size { push(track); bytes_read += 8 }, then
\* assert_eq!(bytes_read, chunk.size)
RECURSIVE read_nrg_cuex_tracks(_, _, _, _, _)
read_nrg_cuex_tracks(s, p, size, bytes_read, tracks) ==
    IF bytes_read < size
    THEN LET t == read_nrg_cuex_track(s, p)
         IN  IF ~t.ok THEN t
             ELSE read_nrg_cuex_tracks(s, t.pos, size, bytes_read + 8,
                                       Append(tracks, t.val))
    ELSE IF bytes_read = size
    THEN Ok([size |-> size, tracks |-> tracks], p)
    ELSE Fail(PanicAssert, p)

\* read_nrg_cuex with the final assertion left out (faulty variant)
read_nrg_cuex_unchecked(s, p) ==
    LET size == read_u32(s, p)
        RECURSIVE tracks_from(_, _, _)
        tracks_from(q, bytes_read, tracks) ==
            IF bytes_read < size.val
            THEN LET t == read_nrg_cuex_track(s, q)
                 IN  IF ~t.ok THEN t
                     ELSE tracks_from(t.pos, bytes_read + 8,
                                      Append(tracks, t.val))
            ELSE Ok([size |-> size.val, tracks |-> tracks], q)
    IN  IF ~size.ok THEN size
        ELSE tracks_from(size.pos, 0, <<>>)

\* The CUEX chunk: the declared size, then the 8-byte track blocks
read_nrg_cuex(s, p) ==
    LET size == read_u32(s, p)
    IN  IF ~size.ok THEN size
        ELSE read_nrg_cuex_tracks(s, size.pos, size.val, 0, <<>>)

\* One 42-byte track block of the DAO information
read_nrg_daox_track(s, p) ==
    LET isrc == read_sized_string(s, p, 12)
        sector_size == read_u16(s, isrc.pos)
        data_mode == read_u16(s, sector_size.pos)
        unknown == read_u16(s, data_mode.pos)
        index0 == read_u64(s, unknown.pos)
        index1 == read_u64(s, index0.pos)
        track_end == read_u64(s, index1.pos)
    IN  IF ~isrc.ok THEN isrc
        ELSE IF ~sector_size.ok THEN sector_size
        ELSE IF ~data_mode.ok THEN data_mode
        ELSE IF ~unknown.ok THEN unknown
        ELSE IF ~index0.ok THEN index0
        ELSE IF ~index1.ok THEN index1
        ELSE IF ~track_end.ok THEN track_end
        ELSE Ok([isrc |-> isrc.val, sector_size |-> sector_size.val,
                 data_mode |-> data_mode.val, unknown |-> unknown.val,
                 index0 |-> index0.val, index1 |-> index1.val,
                 track_end |-> track_end.val],
                track_end.pos)

\* while bytes_read < chunk.size { push(track); bytes_read += 42 }, then
\* assert_eq!(bytes_read, chunk.size)
RECURSIVE read_nrg_daox_tracks(_, _, _, _, _)
read_nrg_daox_tracks(s, p, chunk, bytes_read, tracks) ==
    IF bytes_read < chunk.size
    THEN LET t == read_nrg_daox_track(s, p)
         IN  IF ~t.ok THEN t
             ELSE read_nrg_daox_tracks(s, t.pos, chunk, bytes_read + 42,
                                       Append(tracks, t.val))
    ELSE IF bytes_read = chunk.size
    THEN Ok([chunk EXCEPT !.tracks = tracks], p)
    ELSE Fail(PanicAssert, p)

\* read_nrg_daox counting 20 header bytes instead of 22
read_nrg_daox_short_header(s, p) ==
    LET size == read_u32(s, p)
        size2 == read_u32(s, size.pos)
        upc == read_sized_string(s, size2.pos, 13)
        padding == read_u8(s, upc.pos)
        toc_type == read_u16(s, padding.pos)
        first_track == read_u8(s, toc_type.pos)
        last_track == read_u8(s, first_track.pos)
    IN  IF ~size.ok THEN size
        ELSE IF ~size2.ok THEN size2
        ELSE IF ~upc.ok THEN upc
        ELSE IF ~padding.ok THEN padding
        ELSE IF ~toc_type.ok THEN toc_type
        ELSE IF ~first_track.ok THEN first_track
        ELSE IF ~last_track.ok THEN last_track
        ELSE read_nrg_daox_tracks(s, last_track.pos,
                 [size |-> size.val, size2 |-> size2.val, upc |-> upc.val,
                  padding |-> padding.val, toc_type |-> toc_type.val,
                  first_track |-> first_track.val,
                  last_track |-> last_track.val, tracks |-> <<>>],
                 4 + 13 + 1 + 2, <<>>)

\* The DAOX chunk: the 22 header bytes after the size, then the track blocks
read_nrg_daox(s, p) ==
    LET size == read_u32(s, p)
        size2 == read_u32(s, size.pos)
        upc == read_sized_string(s, size2.pos, 13)
        padding == read_u8(s, upc.pos)
        toc_type == read_u16(s, padding.pos)
        first_track == read_u8(s, toc_type.pos)
        last_track == read_u8(s, first_track.pos)
    IN  IF ~size.ok THEN size
        ELSE IF ~size2.ok THEN size2
        ELSE IF ~upc.ok THEN upc
        ELSE IF ~padding.ok THEN padding
        ELSE IF ~toc_type.ok THEN toc_type
        ELSE IF ~first_track.ok THEN first_track
        ELSE IF ~last_track.ok THEN last_track
        ELSE read_nrg_daox_tracks(s, last_track.pos,
                 [size |-> size.val, size2 |-> size2.val, upc |-> upc.val,
                  padding |-> padding.val, toc_type |-> toc_type.val,
                  first_track |-> first_track.val,
                  last_track |-> last_track.val, tracks |-> <<>>],
                 4 + 13 + 1 + 2 + 2, <<>>)

\* The SINF chunk: the declared size and the number of tracks
read_nrg_sinf(s, p) ==
    LET size == read_u32(s, p)
        nb_tracks == read_u32(s, size.pos)
    IN  IF ~size.ok THEN size
        ELSE IF ~nb_tracks.ok THEN nb_tracks
        ELSE Ok([size |-> size.val, nb_tracks |-> nb_tracks.val],
                nb_tracks.pos)

\* The MTYP chunk: the declared size and one unknown field
read_nrg_mtyp(s, p) ==
    LET size == read_u32(s, p)
        unknown == read_u32(s, size.pos)
    IN  IF ~size.ok THEN size
        ELSE IF ~unknown.ok THEN unknown
        ELSE Ok([size |-> size.val, unknown |-> unknown.val], unknown.pos)

\* The loop of read_nrg_afnm: one byte per iteration while bytes_read <
\* chunk.size; a NUL byte closes the name and pushes the track
RECURSIVE read_nrg_afnm_tracks(_, _, _, _, _, _)
read_nrg_afnm_tracks(s, p, size, bytes_read, name, tracks) ==
    IF bytes_read < size
    THEN LET buffer == read_exact(s, p, 1)
         IN  IF ~buffer.ok THEN buffer
             ELSE IF buffer.val[1] = 0
             THEN read_nrg_afnm_tracks(s, buffer.pos, size, bytes_read + 1,
                                       <<>>, Append(tracks, [name |-> name]))
             ELSE read_nrg_afnm_tracks(s, buffer.pos, size, bytes_read + 1,
                                       Append(name, buffer.val[1]), tracks)
    ELSE IF bytes_read # size THEN Fail(PanicAssert, p)
    ELSE Ok(tracks, p)

\* The AFNM chunk: the declared size and the NUL-terminated file names
read_nrg_afnm(s, p) ==
    LET size == read_u32(s, p)
        tracks == read_nrg_afnm_tracks(s, size.pos, size.val, 0, <<>>, <<>>)
    IN  IF ~size.ok THEN size
        ELSE IF ~tracks.ok THEN tracks
        ELSE Ok([size |-> size.val, tracks |-> tracks.val], tracks.pos)

----------------------------------------------------------------------------
(* Footer detection and chunk skipping (src/src/metadata/mod.rs) *)

\* skip_chunk with the seek taken from the start of the file (faulty variant)
skip_chunk_from_start(s, p) ==
    LET chunk_size == read_u32(s, p)
    IN  IF ~chunk_size.ok THEN chunk_size
        ELSE Ok(chunk_size.val, chunk_size.val)

\* read the size, then fd.seek(SeekFrom::Current(chunk_size))
skip_chunk(s, p) ==
    LET chunk_size == read_u32(s, p)
    IN  IF ~chunk_size.ok THEN chunk_size
        ELSE Ok(chunk_size.val, chunk_size.pos + chunk_size.val)

\* read_nrg_version with the v2 footer sought 8 bytes before the end
\* (faulty variant)
read_nrg_version_seek8(s, file_size) ==
    IF file_size < 12 THEN Fail(NrgFormat, Len(s))
    ELSE
    LET id1 == read_nrg_chunk_id(s, Len(s) - 8)
    IN  IF ~id1.ok THEN id1
        ELSE IF id1.val = NER5 THEN Ok(2, id1.pos)
        ELSE Fail(NrgFormat, id1.pos)

\* read_nrg_version raising the legacy-format error itself (faulty variant)
read_nrg_version_rejects_v1(s, file_size) ==
    IF file_size < 12 THEN Fail(NrgFormat, Len(s))
    ELSE
    LET id1 == read_nrg_chunk_id(s, Len(s) - 12)
        id2 == read_nrg_chunk_id(s, id1.pos)
    IN  IF ~id1.ok THEN id1
        ELSE IF id1.val = NER5 THEN Ok(2, id1.pos)
        ELSE IF ~id2.ok THEN id2
        ELSE IF id2.val = NERO THEN Fail(NrgFormatV1, id2.pos)
        ELSE Fail(NrgFormat, id2.pos)

\* read_nrg_version refusing a file of exactly 12 bytes (faulty variant)
read_nrg_version_le12(s, file_size) ==
    IF file_size <= 12 THEN Fail(NrgFormat, Len(s))
    ELSE
    LET id1 == read_nrg_chunk_id(s, Len(s) - 12)
        id2 == read_nrg_chunk_id(s, id1.pos)
    IN  IF ~id1.ok THEN id1
        ELSE IF id1.val = NER5 THEN Ok(2, id1.pos)
        ELSE IF ~id2.ok THEN id2
        ELSE IF id2.val = NERO THEN Ok(1, id2.pos)
        ELSE Fail(NrgFormat, id2.pos)

\* The NRG version from the footer; fd is left after the main chunk ID.
\* It is called with fd at the end of the file (after SeekFrom::End(0)).
read_nrg_version(s, file_size) ==
    IF file_size < 12 THEN Fail(NrgFormat, Len(s))
    ELSE
    LET id1 == read_nrg_chunk_id(s, Len(s) - 12)
        id2 == read_nrg_chunk_id(s, id1.pos)
    IN  IF ~id1.ok THEN id1
        ELSE IF id1.val = NER5 THEN Ok(2, id1.pos)
        ELSE IF ~id2.ok THEN id2
        ELSE IF id2.val = NERO THEN Ok(1, id2.pos)
        ELSE Fail(NrgFormat, id2.pos)

----------------------------------------------------------------------------
(* The metadata aggregate (src/src/metadata/metadata.rs) *)

\* NrgMetadata::new()
NrgMetadata_new ==
    [file_size |-> 0, nrg_version |-> 0, chunk_offset |-> 0,
     cuex_chunk |-> None, daox_chunk |-> None, sinf_chunk |-> None,
     mtyp_chunk |-> None, afnm_chunk |-> None, skipped_chunks |-> <<>>]

\* A slot that keeps its first value (faulty variant of StoreChunk)
StoreChunkIfEmpty(m, slot, chunk) ==
    IF m[slot] = None THEN [m EXCEPT ![slot] = Some(chunk)] ELSE m

\* nm.<slot> = Some(chunk)
StoreChunk(m, slot, chunk) == [m EXCEPT ![slot] = Some(chunk)]

\* The tag put in front of the list (faulty variant of PushSkipped)
PushSkippedFront(m, chunk_id) ==
    [m EXCEPT !.skipped_chunks = <<chunk_id>> \o @]

\* nm.skipped_chunks.push(chunk_id)
PushSkipped(m, chunk_id) ==
    [m EXCEPT !.skipped_chunks = Append(@, chunk_id)]

----------------------------------------------------------------------------
(* The generated image files *)

U16Bytes(n) == <<n \div 256, n % 256>>
U32Bytes(n) == <<0, 0>> \o U16Bytes(n)
U64Bytes(n) == <<0, 0, 0, 0>> \o U32Bytes(n)

Chunk(tag, declared, body) == tag \o U32Bytes(declared) \o body

CuexLeadIn == <<1, 0, 0, 0, 255, 255, 255, 106>>
CuexTrack1 == <<1, 1, 1, 0, 0, 0, 0, 0>>
CuexLeadOut == <<1, 170, 1, 0, 0, 0, 4, 41>>

DaoxHeader(declared) ==
    <<declared, 0, 0, 0>> \o <<48, 49, 50, 0, 0, 0, 0, 0, 0, 0, 0, 0, 0>>
    \o <<0>> \o U16Bytes(0) \o <<1, 1>>
DaoxTrack ==
    <<0, 0, 0, 0, 0, 0, 0, 0, 0, 0, 0, 0>> \o U16Bytes(2352) \o U16Bytes(7)
    \o U16Bytes(1) \o U64Bytes(0) \o U64Bytes(0) \o U64Bytes(1)

\* The chunk encodings an image is assembled from
Catalogue ==
    { Chunk(CUEX, 0, <<>>),
      Chunk(CUEX, 8, CuexLeadIn),
      Chunk(CUEX, 16, CuexTrack1 \o CuexLeadOut),
      Chunk(CUEX, 12, CuexTrack1 \o <<1, 2, 1, 0>>),
      Chunk(CUEX, 24, CuexTrack1),
      Chunk(DAOX, 22, DaoxHeader(22)),
      Chunk(DAOX, 64, DaoxHeader(64) \o DaoxTrack),
      Chunk(SINF, 4, U32Bytes(1)),
      Chunk(SINF, 4, U32Bytes(2)),
      Chunk(MTYP, 4, U32Bytes(0)),
      Chunk(MTYP, 4, U32Bytes(1)),
      Chunk(CDTX, 0, <<>>),
      Chunk(CDTX, 300, <<>>),
      Chunk(ETN2, 3, <<7, 7, 7>>),
      Chunk(DINF, 0, <<>>),
      Chunk(TOCT, 1, <<9>>),
      Chunk(RELO, 0, <<>>),
      Chunk(VOLM, 0, <<>>),
      Chunk(AFNM, 2, <<97, 0>>),
      <<90, 90, 90, 90>>,
      <<67, 85, 69, 0>>,
      <<255, 254, 69, 88>> }

RECURSIVE Flatten(_)
Flatten(seqs) ==
    IF seqs = <<>> THEN <<>> ELSE Head(seqs) \o Flatten(Tail(seqs))

ChunkLists == UNION { [1..n -> Catalogue] : n \in 0..MaxChunks }

Prefix(n) == [i \in 1..n |-> 128 + i]

\* Version 2 images: track data, a chunk stream with or without its
\* terminator, the 12-byte footer
ImagesV2 ==
    { Prefix(n) \o Flatten(cl) \o term \o NER5 \o U64Bytes(n) :
        n \in 0..MaxPrefix, cl \in ChunkLists, term \in {END, <<>>} }

\* The last 12 bytes of the other images
Footers ==
    { NER5 \o U64Bytes(0),
      NER5 \o U64Bytes(2),
      NER5 \o U64Bytes(500),
      <<0, 0, 0, 0>> \o NERO \o U32Bytes(0),
      <<69, 78, 68, 33>> \o NERO \o U32Bytes(0),
      <<255, 255, 255, 255>> \o NERO \o U32Bytes(0),
      <<0, 255, 255, 255>> \o NERO \o U32Bytes(0),
      <<195, 169, 195, 169>> \o NERO \o U32Bytes(0),
      NERO \o NERO \o U32Bytes(0),
      NERO \o NER5 \o U32Bytes(0),
      <<78, 69, 82, 0>> \o <<78, 69, 82, 0>> \o U32Bytes(0),
      <<1, 2, 3, 4>> \o <<5, 6, 7, 8>> \o U32Bytes(0),
      <<255, 255, 255, 255>> \o <<5, 6, 7, 8>> \o U32Bytes(0),
      <<1, 2, 3, 4>> \o <<192, 128, 7, 8>> \o U32Bytes(0),
      <<1, 2, 3, 4>> \o NER5 \o NER5 }

\* Images with any footer, and files too short to hold one
ImagesOther ==
    { body \o f : body \in {<<>>, END, NER5 \o <<0>>}, f \in Footers }
    \cup { SubSeq(NER5 \o U64Bytes(0), 1, n) : n \in 0..11 }
    \cup { SubSeq(NERO \o U32Bytes(0), 1, n) : n \in 0..8 }

Images == ImagesV2 \cup ImagesOther

----------------------------------------------------------------------------
(* read_nrg_metadata (src/src/metadata/mod.rs) *)

Init ==
    /\ stream \in Images
    /\ pos \in {0, Len(stream)}
    /\ pc = "start"
    /\ nm = NrgMetadata_new
    /\ err = NoError
    /\ trace = <<>>
    /\ result = None
    /\ GenIdle

\* The function returns Err(e) (or panics), fd left at p
Abort(e, p) ==
    /\ pc' = IF e.kind = "panic" THEN "panicked" ELSE "failed"
    /\ err' = e
    /\ pos' = p

\* nm.file_size = fd.seek(End(0)); nm.nrg_version = read_nrg_version(..)
DetectVersion ==
    /\ pc = "start"
    /\ LET file_size == Len(stream)
           version == read_nrg_version(stream, file_size)
       IN  IF version.ok
           THEN /\ nm' = [nm EXCEPT !.file_size = file_size,
                                    !.nrg_version = version.val]
                /\ pos' = version.pos
                /\ pc' = "versioned"
                /\ UNCHANGED err
           ELSE /\ nm' = [nm EXCEPT !.file_size = file_size]
                /\ Abort(version.err, version.pos)
    /\ UNCHANGED <<stream, trace, result>>
    /\ UNCHANGED gen_vars

\* if nm.nrg_version != 2 { return Err(NrgError::NrgFormatV1) }
RejectVersion1 ==
    /\ pc = "versioned"
    /\ nm.nrg_version # 2
    /\ Abort(NrgFormatV1, pos)
    /\ UNCHANGED <<stream, nm, trace, result>>
    /\ UNCHANGED gen_vars

\* nm.chunk_offset = read_u64(fd); fd.seek(Start(nm.chunk_offset))
ReadChunkOffset ==
    /\ pc = "versioned"
    /\ nm.nrg_version = 2
    /\ LET chunk_offset == read_u64(stream, pos)
       IN  IF chunk_offset.ok
           THEN /\ nm' = [nm EXCEPT !.chunk_offset = chunk_offset.val]
                /\ pos' = chunk_offset.val
                /\ pc' = "chunks"
                /\ UNCHANGED err
           ELSE /\ Abort(chunk_offset.err, chunk_offset.pos)
                /\ UNCHANGED nm
    /\ UNCHANGED <<stream, trace, result>>
    /\ UNCHANGED gen_vars

----------------------------------------------------------------------------
(* read_nrg_chunks: one action per arm of the match, one step per iteration *)

ChunkId == read_nrg_chunk_id(stream, pos)

Logged(arm, id, after, val) ==
    trace' = Append(trace, [at |-> pos, id |-> id, arm |-> arm,
                            after |-> after, val |-> val])

\* try!(read_nrg_chunk_id(fd)) fails
ChunkIdError ==
    /\ pc = "chunks"
    /\ ~ChunkId.ok
    /\ Abort(ChunkId.err, ChunkId.pos)
    /\ Logged("error", <<>>, ChunkId.pos, None)
    /\ UNCHANGED <<stream, nm, result>>
    /\ UNCHANGED gen_vars

\* "END!" => break
ChunkEnd ==
    /\ pc = "chunks"
    /\ ChunkId.ok /\ ChunkId.val = END
    /\ pc' = "done"
    /\ pos' = ChunkId.pos
    /\ Logged("end", ChunkId.val, ChunkId.pos, None)
    /\ UNCHANGED <<stream, nm, err, result>>
    /\ UNCHANGED gen_vars

\* An arm that decodes the chunk and stores it in its slot
ChunkDecoded(tag, slot, chunk) ==
    /\ pc = "chunks"
    /\ ChunkId.ok /\ ChunkId.val = tag
    /\ IF chunk.ok
       THEN /\ nm' = StoreChunk(nm, slot, chunk.val)
            /\ pos' = chunk.pos
            /\ Logged("decode", ChunkId.val, chunk.pos, Some(chunk.val))
            /\ UNCHANGED <<pc, err>>
       ELSE /\ Abort(chunk.err, chunk.pos)
            /\ Logged("decode", ChunkId.val, chunk.pos, None)
            /\ UNCHANGED nm
    /\ UNCHANGED <<stream, result>>
    /\ UNCHANGED gen_vars

\* "CUEX" => nm.cuex_chunk = Some(try!(cuex::read_nrg_cuex(fd)))
ChunkCuex ==
    ChunkDecoded(CUEX, "cuex_chunk", read_nrg_cuex(stream, ChunkId.pos))

\* "DAOX" => nm.daox_chunk = Some(try!(daox::read_nrg_daox(fd)))
ChunkDaox ==
    ChunkDecoded(DAOX, "daox_chunk", read_nrg_daox(stream, ChunkId.pos))

\* "SINF" => nm.sinf_chunk = Some(try!(sinf::read_nrg_sinf(fd)))
ChunkSinf ==
    ChunkDecoded(SINF, "sinf_chunk", read_nrg_sinf(stream, ChunkId.pos))

\* "MTYP" => nm.mtyp_chunk = Some(try!(mtyp::read_nrg_mtyp(fd)))
ChunkMtyp ==
    ChunkDecoded(MTYP, "mtyp_chunk", read_nrg_mtyp(stream, ChunkId.pos))

\* The tags of the arms that skip the chunk
SkippedIds == {CDTX, ETN2, DINF, TOCT, RELO}

\* The tags of the arms that decode the chunk
DecodedIds == {CUEX, DAOX, SINF, MTYP}

\* "CDTX" | "ETN2" | "DINF" | "TOCT" | "RELO" =>
\*     try!(skip_chunk(fd)); nm.skipped_chunks.push(chunk_id)
ChunkSkipped ==
    /\ pc = "chunks"
    /\ ChunkId.ok /\ ChunkId.val \in SkippedIds
    /\ LET skipped == skip_chunk(stream, ChunkId.pos)
       IN  IF skipped.ok
           THEN /\ nm' = PushSkipped(nm, ChunkId.val)
                /\ pos' = skipped.pos
                /\ Logged("skip", ChunkId.val, skipped.pos, None)
                /\ UNCHANGED <<pc, err>>
           ELSE /\ Abort(skipped.err, skipped.pos)
                /\ Logged("skip", ChunkId.val, skipped.pos, None)
                /\ UNCHANGED nm
    /\ UNCHANGED <<stream, result>>
    /\ UNCHANGED gen_vars

\* _ => { println!("{}", chunk_id); return Err(NrgError::NrgChunkId); }
ChunkUnknown ==
    /\ pc = "chunks"
    /\ ChunkId.ok
    /\ ChunkId.val \notin {END} \cup DecodedIds \cup SkippedIds
    /\ Abort(NrgChunkId, ChunkId.pos)
    /\ Logged("unknown", ChunkId.val, ChunkId.pos, None)
    /\ UNCHANGED <<stream, nm, result>>
    /\ UNCHANGED gen_vars

Next ==
    \/ DetectVersion
    \/ RejectVersion1
    \/ ReadChunkOffset
    \/ ChunkIdError
    \/ ChunkEnd
    \/ ChunkCuex
    \/ ChunkDaox
    \/ ChunkSinf
    \/ ChunkMtyp
    \/ ChunkSkipped
    \/ ChunkUnknown

Spec == Init /\ [][Next]_vars

----------------------------------------------------------------------------
(* Properties of the footer detector *)

\* The value of a byte string read as a big-endian unsigned integer
RECURSIVE Pow256(_)
Pow256(k) == IF k = 0 THEN 1 ELSE 256 * Pow256(k - 1)

RECURSIVE BigEndian(_)
BigEndian(bytes) ==
    IF bytes = <<>> THEN 0
    ELSE IF Head(bytes) = 0 THEN BigEndian(Tail(bytes))
    ELSE Head(bytes) * Pow256(Len(bytes) - 1) + BigEndian(Tail(bytes))

BytesAt(p, n) == SubSeq(stream, p + 1, p + n)

HasFooter == Len(stream) >= 12
FooterId12 == BytesAt(Len(stream) - 12, 4)
FooterId8 == BytesAt(Len(stream) - 8, 4)
FooterOffset == BigEndian(BytesAt(Len(stream) - 8, 8))

\* The bytes up to the first null byte are well-formed UTF-8 text
WellFormedText(bytes) == into_string_ok(truncate_at_null(bytes))

\* read_nrg_version has returned Err(e)
DetectorFailed(e) == pc = "failed" /\ trace = <<>> /\ err = e

\* read_nrg_version has returned Ok(v)
DetectorReturned(v) ==
    /\ nm.nrg_version = v
    /\ \/ pc = "versioned"
       \/ pc = "failed" /\ err = NrgFormatV1
       \/ pc \in {"chunks", "done", "panicked"}
       \/ pc = "failed" /\ trace # <<>>

\* C1: for every stream of at least 12 bytes whose 4 bytes at length-12 are
\* "NER5", read_nrg_version returns 2 with fd at length-8, the chunk offset
\* read next is the big-endian value of the last 8 bytes, and the first tag
\* of the dispatcher is read at that offset.
C1_V2FooterOffset ==
    (HasFooter /\ FooterId12 = NER5 /\ pc # "start") =>
        /\ DetectorReturned(2)
        /\ pc = "versioned" => pos = Len(stream) - 8
        /\ pc # "versioned" => nm.chunk_offset = FooterOffset
        /\ (pc = "chunks" /\ trace = <<>>) => pos = FooterOffset
        /\ trace # <<>> => trace[1].at = FooterOffset

C1_Witness ==
    /\ HasFooter /\ FooterId12 = NER5
    /\ FooterOffset = 1
    /\ nm.nrg_version = 2 /\ nm.chunk_offset = 1
    /\ Len(trace) = 2 /\ trace[1].at = 1 /\ trace[1].id = CUEX

\* C2 as stated: for every stream of at least 12 bytes whose tag at
\* length-12 is not "NER5" and whose tag at length-8 is "NERO",
\* read_nrg_version returns Ok(1) and read_nrg_metadata then fails with
\* NrgFormatV1 without reading any chunk.
C2_Original ==
    (HasFooter /\ FooterId12 # NER5 /\ FooterId8 = NERO /\ pc # "start") =>
        /\ DetectorReturned(1)
        /\ pc = "versioned" \/ (pc = "failed" /\ err = NrgFormatV1)
        /\ trace = <<>>

\* C2 amended: the same, for the streams whose 4 bytes at length-12 are
\* well-formed UTF-8 text up to their first null byte.
C2_V1RejectedByParser ==
    (/\ HasFooter /\ FooterId12 # NER5 /\ WellFormedText(FooterId12)
     /\ FooterId8 = NERO /\ pc # "start") =>
        /\ DetectorReturned(1)
        /\ pc = "versioned" \/ (pc = "failed" /\ err = NrgFormatV1)
        /\ trace = <<>>

C2_Witness ==
    /\ HasFooter /\ FooterId12 = END /\ FooterId8 = NERO
    /\ pc = "failed" /\ err = NrgFormatV1 /\ nm.nrg_version = 1
    /\ trace = <<>>

\* C3 as stated: read_nrg_version fails with NrgFormat exactly when the
\* stream is shorter than 12 bytes (without any seek or read) or neither
\* the tag at length-12 is "NER5" nor the tag at length-8 is "NERO"; in
\* every other case it returns a version in {1, 2}.
C3_Original ==
    pc # "start" =>
        IF ~HasFooter
        THEN DetectorFailed(NrgFormat) /\ pos = Len(stream)
        ELSE IF FooterId12 # NER5 /\ FooterId8 # NERO
        THEN DetectorFailed(NrgFormat)
        ELSE DetectorReturned(1) \/ DetectorReturned(2)

\* The footer makes a tag read fail: the first tag is not well-formed text,
\* or it is, is not "NER5", and the second tag is not well-formed text
FooterTextMalformed ==
    \/ ~WellFormedText(FooterId12)
    \/ FooterId12 # NER5 /\ ~WellFormedText(FooterId8)

\* C3 amended: read_nrg_version fails with NrgFormat exactly when the stream
\* is shorter than 12 bytes (without any seek or read) or both tags are read
\* as well-formed text, the first is not "NER5" and the second is not
\* "NERO"; it fails with the String error exactly when a tag it reads is not
\* well-formed text; in every other case it returns a version in {1, 2}.
C3_DetectorOutcomes ==
    pc # "start" =>
        IF ~HasFooter
        THEN DetectorFailed(NrgFormat) /\ pos = Len(stream)
        ELSE IF FooterTextMalformed
        THEN pc = "failed" /\ trace = <<>> /\ err.kind = "String"
        ELSE IF FooterId12 # NER5 /\ FooterId8 # NERO
        THEN DetectorFailed(NrgFormat)
        ELSE DetectorReturned(1) \/ DetectorReturned(2)

C3_Witness ==
    /\ Len(stream) = 12
    /\ FooterId12 = <<1, 2, 3, 4>> /\ FooterId8 = <<5, 6, 7, 8>>
    /\ DetectorFailed(NrgFormat)

----------------------------------------------------------------------------
(* Properties of the chunk dispatcher *)

LastEntry == trace[Len(trace)]

\* The declared size of the chunk whose tag is at offset p
DeclaredSize(p) == BigEndian(BytesAt(p + 4, 4))
SizeReadable(p) == p + 8 <= Len(stream)

\* C4: when the dispatcher reads a tag that is neither "END!" nor a decoded
\* nor a skipped tag, it fails with the unknown-chunk error and the error
\* value carries the tag just read.
C4_UnknownChunkCarriesTag ==
    (/\ trace # <<>>
     /\ LastEntry.arm # "error"
     /\ LastEntry.id \notin {END, CUEX, DAOX, SINF, MTYP, AFNM, CDTX, ETN2,
                             DINF, TOCT, RELO, VOLM}) =>
        /\ pc = "failed"
        /\ err.kind = "NrgChunkId"
        /\ err.carries = {LastEntry.id}


\* The body of the chunk at p is complete and as its decoder expects it
WellFormedBody(id, p) ==
    /\ SizeReadable(p)
    /\ p + 8 + DeclaredSize(p) <= Len(stream)
    /\ id = CUEX => DeclaredSize(p) % 8 = 0
    /\ id = DAOX => /\ DeclaredSize(p) >= 22
                    /\ (DeclaredSize(p) - 22) % 42 = 0
    /\ id \in {SINF, MTYP} => DeclaredSize(p) = 4
    /\ id = AFNM => \/ DeclaredSize(p) = 0
                    \/ stream[p + 8 + DeclaredSize(p)] = 0

SlotOf(id) ==
    CASE id = CUEX -> "cuex_chunk"
      [] id = DAOX -> "daox_chunk"
      [] id = SINF -> "sinf_chunk"
      [] id = MTYP -> "mtyp_chunk"
      [] id = AFNM -> "afnm_chunk"

\* C5: for each of the tags CUEX, DAOX, SINF, MTYP and AFNM, a tag followed
\* by a well-formed body is decoded, stored in its slot of the metadata, and
\* the scan continues; an AFNM tag never gives the unknown-chunk error.
C5_FiveTagsDecoded ==
    (/\ trace # <<>>
     /\ LastEntry.id \in {CUEX, DAOX, SINF, MTYP, AFNM}
     /\ WellFormedBody(LastEntry.id, LastEntry.at)) =>
        /\ pc = "chunks"
        /\ err.kind # "NrgChunkId"
        /\ nm[SlotOf(LastEntry.id)] # None
        /\ pos = LastEntry.at + 8 + DeclaredSize(LastEntry.at)

\* The iterations of the dispatcher that read the tag id
Occurrences(id) == { i \in 1..Len(trace) : trace[i].id = id }

Latest(S) == CHOOSE i \in S : \A j \in S : j <= i

\* The value its decoder gives for the chunk whose tag is at offset p
DecodedAt(id, p) ==
    CASE id = CUEX -> read_nrg_cuex(stream, p + 4).val
      [] id = DAOX -> read_nrg_daox(stream, p + 4).val
      [] id = SINF -> read_nrg_sinf(stream, p + 4).val
      [] id = MTYP -> read_nrg_mtyp(stream, p + 4).val

\* C6: after a successful parse each slot holds the value decoded from the
\* last occurrence of its tag, and a slot is None exactly when its tag never
\* occurred before "END!".
C6_LastOccurrenceWins ==
    pc = "done" =>
        /\ \A id \in {CUEX, DAOX, SINF, MTYP} :
              IF Occurrences(id) = {}
              THEN nm[SlotOf(id)] = None
              ELSE nm[SlotOf(id)] =
                       Some(DecodedAt(id, trace[Latest(Occurrences(id))].at))
        /\ nm.afnm_chunk = None <=> Occurrences(AFNM) = {}

C6_Witness ==
    /\ pc = "done"
    /\ Cardinality(Occurrences(CUEX)) = 2
    /\ trace[1].val # trace[2].val
    /\ nm.cuex_chunk = trace[2].val
    /\ nm.daox_chunk = None

\* The tags, in order, of the iterations that skipped their chunk
RECURSIVE SkippedTags(_)
SkippedTags(entries) ==
    IF entries = <<>> THEN <<>>
    ELSE IF Head(entries).arm = "skip"
    THEN <<Head(entries).id>> \o SkippedTags(Tail(entries))
    ELSE SkippedTags(Tail(entries))

\* C7: after a successful parse skipped_chunks is, in stream order and with
\* repetitions, the tags handled by skipping; each skip of a chunk of
\* declared size s leaves fd at (offset of the tag) + 4 + 4 + s, where the
\* next tag is read.
C7_SkippedInOrder ==
    pc = "done" =>
        /\ nm.skipped_chunks = SkippedTags(trace)
        /\ \A i \in 1..Len(trace) :
              /\ trace[i].id = BytesAt(trace[i].at, 4)
              /\ trace[i].arm = "skip" =>
                    trace[i].after = trace[i].at + 4 + 4
                                     + DeclaredSize(trace[i].at)
              /\ i < Len(trace) => trace[i + 1].at = trace[i].after

C7_Witness ==
    /\ pc = "done"
    /\ nm.skipped_chunks = <<ETN2, TOCT>>
    /\ trace[2].at = trace[1].at + 11

\* C8: each of CDTX, ETN2, DINF, TOCT, RELO and VOLM is a skip tag: reading
\* it makes the dispatcher read the size, skip that many bytes, record the
\* tag in skipped_chunks and continue, never failing with the unknown-chunk
\* error.
C8_SixSkipTags ==
    (/\ trace # <<>>
     /\ LastEntry.id \in {CDTX, ETN2, DINF, TOCT, RELO, VOLM}) =>
        /\ err.kind # "NrgChunkId"
        /\ SizeReadable(LastEntry.at) =>
              /\ pc = "chunks"
              /\ nm.skipped_chunks # <<>>
              /\ nm.skipped_chunks[Len(nm.skipped_chunks)] = LastEntry.id
              /\ pos = LastEntry.at + 8 + DeclaredSize(LastEntry.at)

----------------------------------------------------------------------------
(* Properties of the CUEX decoder *)

\* The iterations of the dispatcher that ran read_nrg_cuex on a size it
\* could read
CuexRuns ==
    { i \in 1..Len(trace) :
        trace[i].id = CUEX /\ SizeReadable(trace[i].at) }

\* A CUEX chunk that was returned holds size/8 records, in stream order,
\* and 4 + size bytes were consumed; no chunk is returned for a size that
\* is not a multiple of 8
CuexReturned(e) ==
    LET s == DeclaredSize(e.at)
    IN  /\ e.val # None =>
              /\ e.after = e.at + 4 + 4 + s
              /\ e.val[1].size = s
              /\ Len(e.val[1].tracks) = s \div 8
              /\ \A k \in 1..Len(e.val[1].tracks) :
                    e.val[1].tracks[k] =
                        read_nrg_cuex_track(stream, e.at + 8 * k).val
        /\ s % 8 # 0 => e.val = None

\* C9 as stated: a returned CUEX chunk of declared size s consumed 4 + s
\* bytes and holds s/8 records in stream order; for a size that is not a
\* multiple of 8 no chunk is returned, and the decoder does not read past
\* the declared size before failing.
C9_Original ==
    \A i \in CuexRuns :
        /\ CuexReturned(trace[i])
        /\ trace[i].val = None =>
              trace[i].after <= trace[i].at + 4 + 4
                                + DeclaredSize(trace[i].at)

\* C9 amended: the same, but before failing (by the assertion or by an I/O
\* error at the end of the file) the decoder reads whole 8-byte records up
\* to the first multiple of 8 at or above the declared size, that is up to
\* 7 bytes past it.
C9_CuexExactOrFails ==
    \A i \in CuexRuns :
        LET e == trace[i]
            s == DeclaredSize(e.at)
        IN  /\ CuexReturned(e)
            /\ e.val = None =>
                  /\ i = Len(trace)
                  /\ pc \in {"failed", "panicked"}
                  /\ pc = "panicked" <=> (s % 8 # 0 /\ e.after <= Len(stream)
                                          /\ e.after > e.at + 8 + s)
                  /\ pc = "failed" => err = IoError
                  /\ e.after <= e.at + 8 + 8 * ((s + 7) \div 8)

C9_Witness ==
    /\ pc = "panicked"
    /\ LastEntry.id = CUEX
    /\ DeclaredSize(LastEntry.at) = 12
    /\ LastEntry.after = LastEntry.at + 8 + 16

----------------------------------------------------------------------------
(* read_nrg_cuex_track applied on its own to one track block *)

Byte == 0..255

BlockPositions ==
    { <<0, 0, 0, 0>>, <<0, 0, 4, 41>>, <<255, 255, 255, 106>>,
      <<128, 0, 0, 0>>, <<127, 255, 255, 255>> }

\* 8-byte track blocks: every track number byte, every index number byte
TrackBlocks ==
    { <<mode, track, index, 0>> \o position :
        mode \in {1, 65}, track \in Byte,
        index \in {0, 1, 10, 16, 153, 154}, position \in BlockPositions }
    \cup
    { <<33, track, index, 7>> \o position :
        track \in {0, 1, 170}, index \in Byte, position \in BlockPositions }

\* Blocks cut short by the end of the file
ShortBlocks == { SubSeq(CuexLeadOut, 1, n) : n \in 0..7 }

InitCuexTrack ==
    /\ stream \in TrackBlocks \cup ShortBlocks
    /\ pos = 0
    /\ pc = "block"
    /\ nm = NrgMetadata_new
    /\ err = NoError
    /\ trace = <<>>
    /\ result = None
    /\ GenIdle

\* let track = try!(read_nrg_cuex_track(fd))
DecodeCuexTrack ==
    /\ pc = "block"
    /\ LET track == read_nrg_cuex_track(stream, pos)
       IN  /\ result' = IF track.ok THEN Some(track.val) ELSE None
           /\ err' = track.err
           /\ pos' = track.pos
           /\ pc' = IF track.ok THEN "decoded" ELSE "failed"
    /\ UNCHANGED <<stream, nm, trace>>
    /\ UNCHANGED gen_vars

NextCuexTrack == DecodeCuexTrack

SpecCuexTrack == InitCuexTrack /\ [][NextCuexTrack]_vars

\* A number 0..99 as a BCD byte, any other number as it is
ToBcd(v) == IF v <= 99 THEN (v \div 10) * 16 + (v % 10) ELSE v

\* A signed 32-bit number as 4 big-endian two's complement bytes
I32Bytes(v) ==
    LET low31 == IF v < 0 THEN (v + 2147483647) + 1 ELSE v
        top == (IF v < 0 THEN 128 ELSE 0) + low31 \div 16777216
    IN  <<top, (low31 \div 65536) % 256, (low31 \div 256) % 256,
          low31 % 256>>

\* The 8 bytes that encode the fields of a track record
EncodeTrack(track) ==
    <<track.mode, ToBcd(track.track_number), ToBcd(track.index_number),
      track.padding>> \o I32Bytes(track.position_sectors)

\* C10 as stated: re-encoding the fields of a record decoded by
\* read_nrg_cuex_track (mode, track number as BCD, index number as BCD,
\* padding, position as big-endian two's complement) gives back the 8
\* source bytes, for every 8-byte input.
C10_Original ==
    pc = "decoded" => EncodeTrack(result[1]) = stream

\* A byte read_u8_bcd decodes without loss: a BCD byte (both digits at most
\* 9), or a byte returned as it is because its decoded value is above 99
LosslessBcd(byte) ==
    \/ (byte \div 16) <= 9 /\ (byte % 16) <= 9
    \/ (byte \div 16) * 10 + (byte % 16) > 99

\* C10 amended: the same, for every 8-byte input whose track number and
\* index number bytes are each a BCD byte or a byte whose decoded value is
\* above 99; a byte with a low digit above 9 and a decoded value of at most
\* 99 decodes to the value of a BCD byte (0x0A and 0x10 both give 10).
C10_TrackRoundTrip ==
    (pc = "decoded" /\ LosslessBcd(stream[2]) /\ LosslessBcd(stream[3])) =>
        EncodeTrack(result[1]) = stream

C10_Witness ==
    /\ pc = "decoded"
    /\ stream = <<1, 170, 16, 0, 255, 255, 255, 106>>
    /\ result[1] = NrgCuexTrack(1, 170, 10, 0, -150)
    /\ EncodeTrack(result[1]) = stream

----------------------------------------------------------------------------
(* read_nrg_daox applied on its own to one DAOX body *)

MaxDaoxSize == 110
MaxDaoxTracks == 3

\* The 22 header bytes that follow the size: size2 (little endian), UPC,
\* padding, TOC type, first and last track
DaoxHeaderUpc(upc) ==
    <<22, 0, 0, 0>> \o upc \o <<0>> \o U16Bytes(0) \o <<1, 2>>

DaoxUpcs ==
    { <<48, 49, 50, 0, 0, 0, 0, 0, 0, 0, 0, 0, 0>>,
      <<255, 49, 50, 0, 0, 0, 0, 0, 0, 0, 0, 0, 0>> }

\* 42-byte track blocks: ISRC, sector size, mode, unknown, index0, index1,
\* end of track
DaoxTrackAt(k) ==
    <<0, 0, 0, 0, 0, 0, 0, 0, 0, 0, 0, 0>> \o U16Bytes(2352) \o U16Bytes(7)
    \o U16Bytes(1) \o U64Bytes(100 * k) \o U64Bytes(100 * k + 10)
    \o U64Bytes(100 * k + 100)

RECURSIVE DaoxTracksUpTo(_)
DaoxTracksUpTo(n) ==
    IF n = 0 THEN <<>> ELSE DaoxTracksUpTo(n - 1) \o DaoxTrackAt(n)

\* DAOX bodies: every declared size, followed by the header and by 0 to
\* MaxDaoxTracks track blocks, whole or cut short by the end of the file
DaoxBodies ==
    { U32Bytes(size) \o DaoxHeaderUpc(upc) \o DaoxTracksUpTo(n) \o cut :
        size \in 0..MaxDaoxSize, upc \in DaoxUpcs, n \in 0..MaxDaoxTracks,
        cut \in {<<>>, <<0, 0, 0>>} }
    \cup { SubSeq(U32Bytes(22) \o DaoxHeaderUpc(<<48, 49, 50, 0, 0, 0, 0, 0,
                                                  0, 0, 0, 0, 0>>), 1, n) :
             n \in 0..25 }

InitDaox ==
    /\ stream \in DaoxBodies
    /\ pos = 0
    /\ pc = "daox"
    /\ nm = NrgMetadata_new
    /\ err = NoError
    /\ trace = <<>>
    /\ result = None
    /\ GenIdle

\* nm.daox_chunk = Some(try!(daox::read_nrg_daox(fd)))
DecodeDaox ==
    /\ pc = "daox"
    /\ LET chunk == read_nrg_daox(stream, pos)
       IN  /\ result' = IF chunk.ok THEN Some(chunk.val) ELSE None
           /\ err' = chunk.err
           /\ pos' = chunk.pos
           /\ pc' = IF chunk.ok THEN "daox_decoded"
                    ELSE IF chunk.err.kind = "panic" THEN "daox_panicked"
                    ELSE "daox_failed"
    /\ UNCHANGED <<stream, nm, trace>>
    /\ UNCHANGED gen_vars

NextDaox == DecodeDaox

SpecDaox == InitDaox /\ [][NextDaox]_vars

\* The declared size of the DAOX body under decoding
DaoxDeclared == BigEndian(SubSeq(stream, 1, 4))

\* The header bytes counted against the declared size: size2, UPC, padding,
\* TOC type, first and last track
DaoxFixedHeader == 4 + 13 + 1 + 2 + 1 + 1

\* C11: whenever read_nrg_daox returns a chunk for declared size s, it
\* holds (s-20) div 42 track records, s bytes were consumed after the size
\* field, and the track records took s minus the fixed header bytes; for
\* every s for which this cannot hold (s below the header included) no
\* chunk is returned.
C11_DaoxExactCount ==
    (pc \in {"daox_decoded", "daox_failed", "daox_panicked"}
     /\ Len(stream) >= 4) =>
        LET s == DaoxDeclared
        IN  /\ result # None =>
                  /\ pc = "daox_decoded"
                  /\ result[1].size = s
                  /\ s >= 20
                  /\ Len(result[1].tracks) = (s - 20) \div 42
                  /\ pos = 4 + s
                  /\ 42 * Len(result[1].tracks) = s - DaoxFixedHeader
                  /\ \A k \in 1..Len(result[1].tracks) :
                        result[1].tracks[k] =
                            read_nrg_daox_track(
                                stream, 4 + DaoxFixedHeader + 42 * (k - 1)).val
            /\ (s < DaoxFixedHeader \/ (s - DaoxFixedHeader) % 42 # 0) =>
                  /\ result = None
                  /\ pc # "daox_decoded"

C11_Witness ==
    /\ pc = "daox_decoded"
    /\ DaoxDeclared = 106
    /\ Len(result[1].tracks) = 2
    /\ pos = 110

\* A declared size below the header: the assertion fails after the header
C11_WitnessShort ==
    /\ pc = "daox_panicked"
    /\ DaoxDeclared = 20
    /\ result = None
    /\ GenIdle

----------------------------------------------------------------------------
(* Properties of read_u8_bcd, read through the track and index number
   fields of read_nrg_cuex_track *)

\* The decimal reading of a byte's two hexadecimal digits, in exact
\* arithmetic
BcdDigits(b) == (b \div 16) * 10 + (b % 16)

\* What C12 states read_u8_bcd returns for byte b
BcdValue(b) == IF BcdDigits(b) <= 99 THEN BcdDigits(b) ELSE b

\* C12: for every byte b, read_u8_bcd returns (b div 16)*10 + (b mod 16)
\* when that is at most 99 and b itself otherwise, with no 8-bit overflow
\* on the way; 0x12 gives 12, 0x99 gives 99, 0xFF gives 255, 0xAA gives
\* 0xAA, and every value returned by the fallback is above 99.
C12_BcdDecode ==
    pc = "decoded" =>
        /\ result[1].track_number = BcdValue(stream[2])
        /\ result[1].index_number = BcdValue(stream[3])
        /\ stream[2] = 18 => result[1].track_number = 12
        /\ stream[2] = 153 => result[1].track_number = 99
        /\ stream[2] = 255 => result[1].track_number = 255
        /\ stream[2] = 170 => result[1].track_number = 170
        /\ BcdDigits(stream[2]) > 99 => result[1].track_number > 99
        /\ BcdDigits(stream[3]) > 99 => result[1].index_number > 99
        /\ BcdDigits(stream[2]) <= 255

C12_Witness ==
    /\ pc = "decoded"
    /\ stream[2] = 170 /\ result[1].track_number = 170
    /\ stream[3] = 153 /\ result[1].index_number = 99

----------------------------------------------------------------------------
(* The cue sheet generator (src/src/cue_sheet.rs): text formatting *)

\* Text is a sequence of pieces: the literal parts of a format string are
\* one piece each, a formatted number is one piece per character
Digit(d) == <<"0", "1", "2", "3", "4", "5", "6", "7", "8", "9">>[d + 1]

\* "{}" of a non-negative number: its decimal digits
RECURSIVE Decimal(_)
Decimal(n) ==
    IF n < 10 THEN <<Digit(n)>> ELSE Decimal(n \div 10) \o <<Digit(n % 10)>>

\* "{:02}" of a non-negative number: padded with zeros to a width of at
\* least 2
Fmt02(n) == IF Len(Decimal(n)) < 2 THEN <<"0">> \o Decimal(n) ELSE Decimal(n)

\* write_cue_index with the seconds taken from the position at 60 sectors
\* per second (faulty variant)
write_cue_index_rate60(index, position_sectors) ==
    IF ~(position_sectors >= 0) THEN Fail(PanicAssert, 0)
    ELSE LET seconds0 == position_sectors \div 60
             remaining_sectors == position_sectors % 75
             minutes == seconds0 \div 60
             seconds == seconds0 % 60
         IN  Ok(<<"    INDEX ">> \o Fmt02(index) \o <<" ">>
                \o Fmt02(minutes) \o <<":">> \o Fmt02(seconds) \o <<":">>
                \o Fmt02(remaining_sectors), 0)

\* write_cue_index with the minutes cut to their last two digits (faulty
\* variant)
write_cue_index_mod100(index, position_sectors) ==
    IF ~(position_sectors >= 0) THEN Fail(PanicAssert, 0)
    ELSE LET seconds0 == position_sectors \div 75
             remaining_sectors == position_sectors % 75
             minutes == (seconds0 \div 60) % 100
             seconds == seconds0 % 60
         IN  Ok(<<"    INDEX ">> \o Fmt02(index) \o <<" ">>
                \o Fmt02(minutes) \o <<":">> \o Fmt02(seconds) \o <<":">>
                \o Fmt02(remaining_sectors), 0)

\* The line write_cue_index writes, or the panic of its assertion:
\* assert!(position_sectors >= 0); seconds = position_sectors as u32 / 75;
\* remaining_sectors = position_sectors % 75; minutes = seconds / 60;
\* seconds %= 60
write_cue_index(index, position_sectors) ==
    IF ~(position_sectors >= 0) THEN Fail(PanicAssert, 0)
    ELSE LET seconds0 == position_sectors \div 75
             remaining_sectors == position_sectors % 75
             minutes == seconds0 \div 60
             seconds == seconds0 % 60
         IN  Ok(<<"    INDEX ">> \o Fmt02(index) \o <<" ">>
                \o Fmt02(minutes) \o <<":">> \o Fmt02(seconds) \o <<":">>
                \o Fmt02(remaining_sectors), 0)

----------------------------------------------------------------------------
(* write_cue_index applied on its own to one index and one position *)

MaxPosition == 4700

\* Sector positions: every position up to MaxPosition, the positions around
\* 100 minutes, the largest i32, and negative ones
TimePositions ==
    (0..MaxPosition)
    \cup {449999, 450000, 450074, 450075, 5999999, 2147483647}
    \cup {-1, -150}

InitCueIndex ==
    /\ args \in [index : {0, 1, 99}, position_sectors : TimePositions]
    /\ cue_fd = Some(<<>>)
    /\ pc = "index"
    /\ stream = <<>>
    /\ pos = 0
    /\ nm = NrgMetadata_new
    /\ err = NoError
    /\ trace = <<>>
    /\ result = None
    /\ img_path = None
    /\ index0_pos = -1
    /\ cue_i = 0
    /\ RawIdle

\* write_cue_index(fd, index, position_sectors)
WriteCueIndex ==
    /\ pc = "index"
    /\ LET line == write_cue_index(args.index, args.position_sectors)
       IN  IF line.ok
           THEN /\ cue_fd' = Some(Append(cue_fd[1], line.val))
                /\ result' = Some(line.val)
                /\ pc' = "written"
                /\ UNCHANGED err
           ELSE /\ pc' = "panicked"
                /\ err' = line.err
                /\ UNCHANGED <<cue_fd, result>>
    /\ UNCHANGED <<stream, pos, nm, trace, img_path, index0_pos, cue_i, args>>
    /\ UNCHANGED raw_vars

NextCueIndex == WriteCueIndex

SpecCueIndex == InitCueIndex /\ [][NextCueIndex]_vars

----------------------------------------------------------------------------
(* Properties of the time code written by write_cue_index *)

\* Reading a cue sheet line back: the pieces after the first piece `sep`
TextAfter(text, sep) ==
    IF \E i \in 1..Len(text) : text[i] = sep
    THEN LET i == CHOOSE j \in 1..Len(text) :
                      /\ text[j] = sep
                      /\ \A k \in 1..(j - 1) : text[k] # sep
         IN  SubSeq(text, i + 1, Len(text))
    ELSE <<>>

\* The pieces before the first piece `sep` (all of them when there is none)
TextBefore(text, sep) ==
    IF \E i \in 1..Len(text) : text[i] = sep
    THEN LET i == CHOOSE j \in 1..Len(text) :
                      /\ text[j] = sep
                      /\ \A k \in 1..(j - 1) : text[k] # sep
         IN  SubSeq(text, 1, i - 1)
    ELSE text

\* The fields of a text separated by `sep`
RECURSIVE SplitText(_, _)
SplitText(text, sep) ==
    IF \E i \in 1..Len(text) : text[i] = sep
    THEN <<TextBefore(text, sep)>> \o SplitText(TextAfter(text, sep), sep)
    ELSE <<text>>

IsDigit(c) == \E d \in 0..9 : Digit(d) = c
DigitValue(c) == CHOOSE d \in 0..9 : Digit(d) = c

\* The number a text of decimal digits denotes
RECURSIVE Number(_)
Number(text) ==
    IF text = <<>> THEN 0
    ELSE Number(SubSeq(text, 1, Len(text) - 1)) * 10
         + DigitValue(text[Len(text)])

\* The mm, ss and ff fields of an INDEX line
TimeFields(line) == SplitText(TextAfter(line, " "), ":")

\* The fields are three, and each is a text of digits
WellFormedTime(line) ==
    /\ Len(TimeFields(line)) = 3
    /\ \A f \in 1..3 :
          /\ TimeFields(line)[f] # <<>>
          /\ \A i \in 1..Len(TimeFields(line)[f]) :
                IsDigit(TimeFields(line)[f][i])

\* The fields have the values mm = (p div 75) div 60, ss = (p div 75) mod 60,
\* ff = p mod 75
TimeValues(line, p) ==
    /\ WellFormedTime(line)
    /\ Number(TimeFields(line)[1]) = (p \div 75) \div 60
    /\ Number(TimeFields(line)[2]) = (p \div 75) % 60
    /\ Number(TimeFields(line)[3]) = p % 75
    /\ p = 0 => TextAfter(line, " ") = <<"0", "0", ":", "0", "0", ":", "0", "0">>
    /\ p = 75 => TextAfter(line, " ") = <<"0", "0", ":", "0", "1", ":", "0", "0">>
    /\ p = 4649 =>
          TextAfter(line, " ") = <<"0", "1", ":", "0", "1", ":", "7", "4">>

\* C13 as stated: for every non-negative position p, write_cue_index
\* renders mm = (p div 75) div 60, ss = (p div 75) mod 60, ff = p mod 75 in
\* exact integer arithmetic, each of the three as a two-digit zero-padded
\* decimal.
C13_Original ==
    pc = "written" =>
        /\ TimeValues(result[1], args.position_sectors)
        /\ \A f \in 1..3 : Len(TimeFields(result[1])[f]) = 2

\* C13 amended: the same values; ss and ff are two digits, zero-padded; mm
\* is zero-padded to two digits and takes more digits, with no padding, from
\* 100 minutes on (p >= 450000).
C13_TimeCode ==
    pc = "written" =>
        LET p == args.position_sectors
            F == TimeFields(result[1])
        IN  /\ TimeValues(result[1], p)
            /\ Len(F[2]) = 2
            /\ Len(F[3]) = 2
            /\ Len(F[1]) >= 2
            /\ Len(F[1]) = 2 <=> p < 450000
            /\ Len(F[1]) > 2 => F[1][1] # "0"

C13_Witness ==
    /\ pc = "written"
    /\ args.position_sectors = 4649
    /\ TextAfter(result[1], " ") = <<"0", "1", ":", "0", "1", ":", "7", "4">>
    /\ cue_fd[1] = <<result[1]>>

\* C14: for every non-negative 32-bit position p, the mm, ss and ff fields
\* written by write_cue_index, read back as numbers, give
\* (mm*60 + ss)*75 + ff = p.
C14_TimeRoundTrip ==
    pc = "written" =>
        LET F == TimeFields(cue_fd[1][1])
        IN  /\ WellFormedTime(cue_fd[1][1])
            /\ (Number(F[1]) * 60 + Number(F[2])) * 75 + Number(F[3])
               = args.position_sectors

C14_Witness ==
    /\ pc = "written"
    /\ args.position_sectors = 2147483647
    /\ TimeFields(cue_fd[1][1])
       = << <<"4", "7", "7", "2", "1", "8">>, <<"3", "5">>, <<"2", "2">> >>

----------------------------------------------------------------------------
(* The cue sheet generator (src/src/cue_sheet.rs) *)

NoNrgCue == [kind |-> "NoNrgCue", carries |-> {}]
FileName(text) == [kind |-> "FileName", carries |-> {text}]
\* not an NrgError: an index past the end of a Vec, the thread panicked
PanicBounds == [kind |-> "panic", carries |-> {"index out of bounds"}]

\* A path: its file_name() (None for a path such as ".."), split into the
\* stem and the extension() of the base name
Path(stem, extension) ==
    [file_name |-> Some([stem |-> stem, extension |-> extension])]
NoFileName == [file_name |-> None]

\* "{}" of the base name with its extension set to `extension`
WithExtension(path, extension) ==
    <<path.file_name[1].stem, ".", extension>>

\* write_cue_sheet up to the first line of the cue sheet: the error it
\* returns, or the file it created (faulty variant: the file is created
\* before the metadata is looked at)
write_cue_sheet_create_first(path, m) ==
    IF path.file_name = None
    THEN [err |-> FileName(path), fd |-> None]
    ELSE IF path.file_name[1].extension = Some("cue")
    THEN [err |-> FileName("Input and output file are identical"),
          fd |-> None]
    ELSE IF m.cuex_chunk = None \/ m.afnm_chunk = None
    THEN [err |-> NoNrgCue, fd |-> Some(<<>>)]
    ELSE [err |-> NoError,
          fd |-> Some(<< <<"FILE \"">> \o WithExtension(path, "raw")
                         \o <<"\" BINARY">> >>)]

\* write_cue_sheet up to the first line of the cue sheet: the error it
\* returns, or the file it created
write_cue_sheet_begin(path, m) ==
    IF m.cuex_chunk = None THEN [err |-> NoNrgCue, fd |-> None]
    ELSE IF m.afnm_chunk = None THEN [err |-> NoNrgCue, fd |-> None]
    ELSE IF path.file_name = None
    THEN [err |-> FileName(path), fd |-> None]
    ELSE IF path.file_name[1].extension = Some("cue")
    THEN [err |-> FileName("Input and output file are identical"),
          fd |-> None]
    ELSE [err |-> NoError,
          fd |-> Some(<< <<"FILE \"">> \o WithExtension(path, "raw")
                         \o <<"\" BINARY">> >>)]

\* name.replace(".wav", ""): a name is a sequence of pieces, ".wav" one of
\* them
ReplaceWav(name) == SelectSeq(name, LAMBDA piece : piece # ".wav")

\* "{:?}" of a string: the string between double quotes
DebugStr(text) == <<"\"">> \o text \o <<"\"">>

\* write_cue_track storing index 0 before it looks at the position
\* (faulty variant)
write_cue_track_index0_first(track, index0, afnm_tracks) ==
    IF track.track_number = 0 \/ track.track_number = 170
    THEN [lines |-> <<>>, index0_pos |-> index0, err |-> NoError]
    ELSE IF track.index_number = 0
    THEN [lines |-> <<>>, index0_pos |-> track.position_sectors,
          err |-> NoError]
    ELSE IF track.position_sectors < 0
    THEN [lines |-> <<>>, index0_pos |-> index0, err |-> NoError]
    ELSE LET track_line == <<"  TRACK ">> \o Fmt02(track.track_number)
                           \o <<" AUDIO">>
             title_at == (track.track_number - 1) + 1
             title_line == <<"    TITLE ">>
                           \o DebugStr(ReplaceWav(afnm_tracks[title_at].name))
             index0_line == write_cue_index(0, index0)
             index_line == write_cue_index(track.index_number,
                                           track.position_sectors)
             pregap == index0 >= 0 /\ index0 < track.position_sectors
         IN  IF title_at > Len(afnm_tracks)
             THEN [lines |-> <<track_line>>, index0_pos |-> index0,
                   err |-> PanicBounds]
             ELSE [lines |-> <<track_line, title_line>>
                             \o (IF pregap THEN <<index0_line.val>>
                                 ELSE <<>>)
                             \o <<index_line.val>>,
                   index0_pos |-> -1, err |-> NoError]

\* write_cue_track resetting index0 only when it wrote it (faulty variant)
write_cue_track_reset_if_written(track, index0, afnm_tracks) ==
    IF track.track_number = 0 \/ track.track_number = 170
    THEN [lines |-> <<>>, index0_pos |-> index0, err |-> NoError]
    ELSE IF track.position_sectors < 0
    THEN [lines |-> <<>>, index0_pos |-> index0, err |-> NoError]
    ELSE IF track.index_number = 0
    THEN [lines |-> <<>>, index0_pos |-> track.position_sectors,
          err |-> NoError]
    ELSE LET track_line == <<"  TRACK ">> \o Fmt02(track.track_number)
                           \o <<" AUDIO">>
             title_at == (track.track_number - 1) + 1
             title_line == <<"    TITLE ">>
                           \o DebugStr(ReplaceWav(afnm_tracks[title_at].name))
             index0_line == write_cue_index(0, index0)
             index_line == write_cue_index(track.index_number,
                                           track.position_sectors)
             pregap == index0 >= 0 /\ index0 < track.position_sectors
         IN  IF title_at > Len(afnm_tracks)
             THEN [lines |-> <<track_line>>, index0_pos |-> index0,
                   err |-> PanicBounds]
             ELSE [lines |-> <<track_line, title_line>>
                             \o (IF pregap THEN <<index0_line.val>>
                                 ELSE <<>>)
                             \o <<index_line.val>>,
                   index0_pos |-> IF pregap THEN -1 ELSE index0,
                   err |-> NoError]

\* write_cue_track: the lines written to fd, the new *index0_pos, and the
\* panic if any
write_cue_track(track, index0, afnm_tracks) ==
    IF track.track_number = 0 \/ track.track_number = 170
    THEN [lines |-> <<>>, index0_pos |-> index0, err |-> NoError]
    ELSE IF track.position_sectors < 0
    THEN [lines |-> <<>>, index0_pos |-> index0, err |-> NoError]
    ELSE IF track.index_number = 0
    THEN [lines |-> <<>>, index0_pos |-> track.position_sectors,
          err |-> NoError]
    ELSE LET track_line == <<"  TRACK ">> \o Fmt02(track.track_number)
                           \o <<" AUDIO">>
             title_at == (track.track_number - 1) + 1
             title_line == <<"    TITLE ">>
                           \o DebugStr(ReplaceWav(afnm_tracks[title_at].name))
             index0_line == write_cue_index(0, index0)
             index_line == write_cue_index(track.index_number,
                                           track.position_sectors)
             pregap == index0 >= 0 /\ index0 < track.position_sectors
         IN  IF title_at > Len(afnm_tracks)
             THEN [lines |-> <<track_line>>, index0_pos |-> index0,
                   err |-> PanicBounds]
             ELSE [lines |-> <<track_line, title_line>>
                             \o (IF pregap THEN <<index0_line.val>>
                                 ELSE <<>>)
                             \o <<index_line.val>>,
                   index0_pos |-> -1, err |-> NoError]

----------------------------------------------------------------------------
(* write_cue_sheet applied to metadata values *)

MaxCueTracks == 3

\* CUEX track records: lead-in, lead-out, index 0 and index >= 1 records of
\* tracks 1 and 2, with a pre-gap before, at and after the track start
CueRecords ==
    { NrgCuexTrack(1, 0, 0, 0, -150),
      NrgCuexTrack(1, 1, 0, 0, -150),
      NrgCuexTrack(1, 1, 0, 0, 0),
      NrgCuexTrack(1, 1, 1, 0, 0),
      NrgCuexTrack(1, 1, 1, 0, 150),
      NrgCuexTrack(1, 1, 2, 0, 300),
      NrgCuexTrack(1, 2, 0, 0, 300),
      NrgCuexTrack(1, 2, 1, 0, 150),
      NrgCuexTrack(1, 2, 1, 0, 450),
      NrgCuexTrack(1, 170, 1, 0, 600) }

CueTrackLists == UNION { [1..n -> CueRecords] : n \in 0..MaxCueTracks }

\* AFNM name lists
AfnmLists ==
    { <<>>,
      << [name |-> <<"a", ".wav">>] >>,
      << [name |-> <<"a", ".wav">>], [name |-> <<"b">>] >> }

ImgPaths ==
    { Path("image", Some("nrg")), Path("image", None),
      Path("image", Some("cue")), Path("image", Some("raw")), NoFileName }

\* Metadata values: with or without a CUEX chunk, with or without an AFNM
\* chunk
CueMetadata ==
    { [NrgMetadata_new EXCEPT !.nrg_version = 2,
                              !.cuex_chunk = cuex, !.afnm_chunk = afnm] :
        cuex \in {None} \cup { Some([size |-> 8 * Len(tracks),
                                     tracks |-> tracks]) :
                                 tracks \in CueTrackLists },
        afnm \in {None} \cup { Some([size |-> 0, tracks |-> names]) :
                                 names \in AfnmLists } }

InitCue ==
    /\ nm \in CueMetadata
    /\ img_path \in ImgPaths
    /\ img_path # Path("image", Some("nrg")) =>
          (nm.cuex_chunk # None => Len(nm.cuex_chunk[1].tracks) <= 1)
    /\ pc = "cue"
    /\ cue_fd = None
    /\ index0_pos = -1
    /\ cue_i = 0
    /\ stream = <<>>
    /\ pos = 0
    /\ err = NoError
    /\ trace = <<>>
    /\ result = None
    /\ args = None
    /\ RawIdle

\* write_cue_sheet, up to the call of write_cue_tracks, and
\* let mut index0_pos = -1 in write_cue_tracks
WriteCueSheet ==
    /\ pc = "cue"
    /\ LET begin == write_cue_sheet_begin(img_path, nm)
       IN  /\ cue_fd' = begin.fd
           /\ err' = begin.err
           /\ pc' = IF begin.err = NoError THEN "cue_tracks" ELSE "failed"
    /\ index0_pos' = -1
    /\ cue_i' = 1
    /\ UNCHANGED <<stream, pos, nm, trace, result, img_path, args>>
    /\ UNCHANGED raw_vars

\* for track in cuex_tracks { try!(write_cue_track(..)) }: one iteration
WriteCueTrack ==
    /\ pc = "cue_tracks"
    /\ cue_i <= Len(nm.cuex_chunk[1].tracks)
    /\ LET track == nm.cuex_chunk[1].tracks[cue_i]
           written == write_cue_track(track, index0_pos,
                                      nm.afnm_chunk[1].tracks)
       IN  /\ cue_fd' = Some(cue_fd[1] \o written.lines)
           /\ index0_pos' = written.index0_pos
           /\ err' = written.err
           /\ pc' = IF written.err = NoError THEN "cue_tracks"
                    ELSE "panicked"
           /\ trace' = Append(trace, [i |-> cue_i, track |-> track,
                                      pending |-> index0_pos,
                                      lines |-> written.lines,
                                      err |-> written.err])
    /\ cue_i' = cue_i + 1
    /\ UNCHANGED <<stream, pos, nm, result, img_path, args>>
    /\ UNCHANGED raw_vars

\* the loop is over: Ok(())
WriteCueSheetDone ==
    /\ pc = "cue_tracks"
    /\ cue_i > Len(nm.cuex_chunk[1].tracks)
    /\ pc' = "cue_done"
    /\ UNCHANGED <<stream, pos, nm, err, trace, result, gen_vars>>

NextCue ==
    \/ WriteCueSheet
    \/ WriteCueTrack
    \/ WriteCueSheetDone

SpecCue == InitCue /\ [][NextCue]_vars

----------------------------------------------------------------------------
(* Properties of the cue sheet *)

\* The lines of the cue sheet file (none while it is not created)
CueLines == IF cue_fd = None THEN <<>> ELSE cue_fd[1]

IsTrackLine(line) == line # <<>> /\ line[1] = "  TRACK "
IsTitleLine(line) == line # <<>> /\ line[1] = "    TITLE "
IsIndexLine(line) == line # <<>> /\ line[1] = "    INDEX "

\* The number written on a TRACK or INDEX line
LineNumber(line) == Number(TextBefore(Tail(line), " "))

IsIndex00(line) == IsIndexLine(line) /\ LineNumber(line) = 0

\* The sector position an INDEX line denotes
LinePosition(line) ==
    (Number(TimeFields(Tail(line))[1]) * 60
     + Number(TimeFields(Tail(line))[2])) * 75
    + Number(TimeFields(Tail(line))[3])

\* A track-start record: real track, non-negative position, index >= 1
IsTrackStart(track) ==
    /\ track.track_number # 0 /\ track.track_number # 170
    /\ track.position_sectors >= 0
    /\ track.index_number # 0

\* The iterations of write_cue_tracks that processed a track-start record
TrackStarts == { i \in 1..Len(trace) : IsTrackStart(trace[i].track) }

\* C15: an INDEX 00 line is emitted for a track-start record if and only
\* if a pending pre-gap position is stored when the record is processed and
\* is strictly less than the record's position; a pending position equal
\* to or greater than it is dropped without output; at most one INDEX 00
\* line precedes the INDEX nn line of a track.
C15_PregapIffPending ==
    \A i \in TrackStarts :
        LET e == trace[i]
            zeros == { k \in 1..Len(e.lines) : IsIndex00(e.lines[k]) }
        IN  /\ zeros # {} <=> (e.pending >= 0
                               /\ e.pending < e.track.position_sectors)
            /\ Cardinality(zeros) <= 1
            /\ \A k \in zeros :
                  /\ LinePosition(e.lines[k]) = e.pending
                  /\ k < Len(e.lines)
                  /\ IsIndexLine(e.lines[k + 1])
                  /\ LineNumber(e.lines[k + 1]) = e.track.index_number

\* C15 with the records left out whose TITLE lookup panicked (the lookup
\* stands between the TRACK line and the INDEX 00 line): for the others the
\* INDEX 00 line is written exactly when the pending position is stored and
\* strictly less than the record's position.
C15_ExceptTitlePanic ==
    \A i \in TrackStarts :
        LET e == trace[i]
            zeros == { k \in 1..Len(e.lines) : IsIndex00(e.lines[k]) }
        IN  e.err = NoError =>
                /\ zeros # {} <=> (e.pending >= 0
                                   /\ e.pending < e.track.position_sectors)
                /\ Cardinality(zeros) <= 1

\* The real track numbers of the CUEX record list
RealTracks ==
    { nm.cuex_chunk[1].tracks[i].track_number :
        i \in 1..Len(nm.cuex_chunk[1].tracks) } \ {0, 170}

\* The TRACK lines of track number n
TrackLinesOf(n) ==
    { k \in 1..Len(CueLines) :
        IsTrackLine(CueLines[k]) /\ LineNumber(CueLines[k]) = n }

\* The INDEX lines that belong to the TRACK line k: those between it and
\* the next TRACK line
IndexLinesOf(k) ==
    { j \in (k + 1)..Len(CueLines) :
        /\ IsIndexLine(CueLines[j])
        /\ \A l \in (k + 1)..j : ~IsTrackLine(CueLines[l]) }

\* C16: in the generated cue sheet each real track gets exactly one TRACK
\* line, followed by one or two INDEX lines; no track number appears on
\* two TRACK lines, also with several records of index >= 1 for a track.
C16_OneTrackLine ==
    pc = "cue_done" =>
        \A n \in RealTracks :
            /\ Cardinality(TrackLinesOf(n)) = 1
            /\ \A k \in TrackLinesOf(n) :
                  Cardinality(IndexLinesOf(k)) \in {1, 2}

\* C17: without a CUEX chunk write_cue_sheet fails with NoNrgCue, and the
\* output file is never created nor written.
C17_NoCuexNoOutput ==
    nm.cuex_chunk = None =>
        /\ cue_fd = None
        /\ pc \in {"cue", "failed"}
        /\ pc = "failed" => err = NoNrgCue

C17_Witness ==
    /\ pc = "failed"
    /\ nm.cuex_chunk = None
    /\ nm.afnm_chunk # None
    /\ img_path = Path("image", Some("nrg"))
    /\ err = NoNrgCue
    /\ cue_fd = None

\* C18: with a CUEX chunk and no AFNM chunk write_cue_sheet succeeds and
\* writes the TRACK and INDEX lines with no TITLE line; a TITLE line is
\* written for a track only when a matching AFNM name is present.
C18_AfnmOptional ==
    /\ (/\ nm.cuex_chunk # None
        /\ nm.afnm_chunk = None
        /\ img_path \in {Path("image", Some("nrg")), Path("image", None)}
        /\ pc \notin {"cue", "cue_tracks"}) =>
           /\ pc = "cue_done"
           /\ cue_fd # None
           /\ \A k \in 1..Len(CueLines) : ~IsTitleLine(CueLines[k])
    /\ \A i \in TrackStarts :
          (\E k \in 1..Len(trace[i].lines) : IsTitleLine(trace[i].lines[k]))
              => /\ nm.afnm_chunk # None
                 /\ trace[i].track.track_number
                        <= Len(nm.afnm_chunk[1].tracks)
    /\ \A i \in TrackStarts :
          (/\ nm.afnm_chunk # None
           /\ trace[i].track.track_number > Len(nm.afnm_chunk[1].tracks))
              => /\ trace[i].err = NoError
                 /\ \E k \in 1..Len(trace[i].lines) :
                       IsIndexLine(trace[i].lines[k])

----------------------------------------------------------------------------
(* The raw audio extractor (src/src/raw_audio.rs) and the accessors of the
   metadata it uses (src/src/metadata/metadata.rs) *)

AudioReadError == [kind |-> "AudioReadError", carries |-> {}]
AudioWriteError == [kind |-> "AudioWriteError", carries |-> {}]
\* not an NrgError: "attempt to subtract with overflow", the thread panicked
PanicOverflow == [kind |-> "panic", carries |-> {"subtract with overflow"}]

RAW_SEC_SIZE == 2352
RAW96_SEC_SIZE == 2448
BUF_SIZE == RAW_SEC_SIZE * 1024 * 2
IN_BUF_SIZE == RAW96_SEC_SIZE
\* OUT_BUF_SIZE without the truncation of the buffer (faulty variant)
OUT_BUF_SIZE_whole == RAW96_SEC_SIZE
OUT_BUF_SIZE == RAW_SEC_SIZE

\* The index1 of the first DAOX track, or 0 if there are no DAOX tracks
first_audio_byte(m) ==
    IF m.daox_chunk # None /\ m.daox_chunk[1].tracks # <<>>
    THEN m.daox_chunk[1].tracks[1].index1
    ELSE 0

\* The track_end of the last DAOX track, or chunk_offset
last_audio_byte(m) ==
    IF m.daox_chunk # None /\ m.daox_chunk[1].tracks # <<>>
    THEN m.daox_chunk[1].tracks[Len(m.daox_chunk[1].tracks)].track_end
    ELSE m.chunk_offset

\* The sector size of the first DAOX track, or 0
sector_size(m) ==
    IF m.daox_chunk # None /\ m.daox_chunk[1].tracks # <<>>
    THEN m.daox_chunk[1].tracks[1].sector_size
    ELSE 0

\* A u64 value below 2^31, and the value 2^64 - k of a wrapped subtraction
U64(v) == [wrapped |-> FALSE, val |-> v]
U64Wrapped(k) == [wrapped |-> TRUE, val |-> k]

\* a <= c and a < c for a u64 c and a number a below 2^31
U64Le(a, c) == c.wrapped \/ a <= c.val
U64Lt(a, c) == c.wrapped \/ a < c.val

\* a - b on u64: the difference; when b > a a panic in a build with
\* overflow checks, the wrapped difference in a build without
U64Sub(a, b, overflow_checks) ==
    IF a >= b THEN [err |-> NoError, val |-> U64(a - b)]
    ELSE IF overflow_checks THEN [err |-> PanicOverflow, val |-> U64(0)]
    ELSE [err |-> NoError, val |-> U64Wrapped(b - a)]

\* The name of the output file, or the FileName error
make_output_file_name(path) ==
    IF path.file_name = None THEN Fail(FileName(path), 0)
    ELSE IF path.file_name[1].extension = Some("raw")
    THEN Fail(FileName("Input and output file are identical"), 0)
    ELSE Ok(WithExtension(path, "raw"), 0)

\* in_fd.read(&mut buf) on a file of `size` bytes at `offset`: the number of
\* bytes read
FileRead(size, offset, len) ==
    IF offset >= size THEN 0
    ELSE IF size - offset < len THEN size - offset
    ELSE len

\* out_fd.write(&buf): the possible numbers of bytes written
FileWrites(len) == {len} \cup (IF len > 0 THEN {len - 1} ELSE {})

----------------------------------------------------------------------------
(* extract_nrg_raw_audio applied to an image file and a metadata value *)

MaxRawTracks == 2

\* DAOX track records of a small image
SmallRawTracks ==
    { [isrc |-> <<>>, sector_size |-> size, data_mode |-> 7, unknown |-> 1,
       index0 |-> 0, index1 |-> index1, track_end |-> track_end] :
        size \in {0, RAW_SEC_SIZE, RAW96_SEC_SIZE},
        index1 \in {0, 100},
        track_end \in {50, 100 + RAW96_SEC_SIZE, 100 + 2 * RAW96_SEC_SIZE} }

\* DAOX track records of an image larger than the copy buffer
LargeRawTracks ==
    { [isrc |-> <<>>, sector_size |-> RAW_SEC_SIZE, data_mode |-> 7,
       unknown |-> 1, index0 |-> 0, index1 |-> 100,
       track_end |-> track_end] :
        track_end \in {100 + BUF_SIZE, 200 + BUF_SIZE, 100 + 2 * BUF_SIZE} }

RawDaox(tracks) ==
    Some([size |-> 22 + 42 * Len(tracks), size2 |-> 0, upc |-> <<>>,
          padding |-> 0, toc_type |-> 0, first_track |-> 1,
          last_track |-> Len(tracks), tracks |-> tracks])

\* The metadata of small images, with their size: no DAOX chunk, a DAOX
\* chunk without tracks, or with up to MaxRawTracks tracks
SmallRawInputs ==
    { [nm |-> [NrgMetadata_new EXCEPT !.nrg_version = 2,
                                      !.file_size = size,
                                      !.chunk_offset = chunk_offset,
                                      !.daox_chunk = daox],
       in_size |-> size] :
        size \in {0, 100 + RAW96_SEC_SIZE, 112 + 2 * RAW96_SEC_SIZE},
        chunk_offset \in {0, 100 + RAW96_SEC_SIZE},
        daox \in {None}
                 \cup { RawDaox(tracks) :
                          tracks \in UNION { [1..n -> SmallRawTracks] :
                                               n \in 0..MaxRawTracks } } }

LargeRawInputs ==
    { [nm |-> [NrgMetadata_new EXCEPT !.nrg_version = 2,
                                      !.file_size = size,
                                      !.chunk_offset = 100 + 2 * BUF_SIZE,
                                      !.daox_chunk = daox],
       in_size |-> size] :
        size \in {200 + BUF_SIZE, 112 + 2 * BUF_SIZE},
        daox \in {None} \cup { RawDaox(<<track>>) :
                                 track \in LargeRawTracks } }

\* What the caller asked for (src/src/main.rs): strip_subchannel is false
\* with the option --no-strip-subchannel. extract_nrg_raw_audio as defined
\* in raw_audio.rs has no parameter for it.
StripRequests == [strip_subchannel : BOOLEAN]

InitRaw ==
    /\ \E input \in SmallRawInputs \cup LargeRawInputs :
          /\ nm = input.nm
          /\ in_size = input.in_size
    /\ img_path \in {Path("image", Some("nrg")), Path("image", Some("raw")),
                     NoFileName}
    /\ pos \in {0, in_size}
    /\ pc = "raw"
    /\ out_fd = None
    /\ count = U64(0)
    /\ raw_bytes_read = 0
    /\ stream = <<>>
    /\ err = NoError
    /\ trace = <<>>
    /\ result = None
    /\ args \in StripRequests
    /\ cue_fd = None
    /\ index0_pos = -1
    /\ cue_i = 0

RawFail(e) ==
    /\ pc' = IF e.kind = "panic" THEN "panicked" ELSE "failed"
    /\ err' = e

\* extract_nrg_raw_audio up to the call of a copy function: the seek, the
\* output file, the count and the dispatch on the sector size
ExtractBegin ==
    /\ pc = "raw"
    /\ pos' = first_audio_byte(nm)
    /\ raw_bytes_read' = 0
    /\ LET audio_name == make_output_file_name(img_path)
       IN  IF ~audio_name.ok
           THEN /\ RawFail(audio_name.err)
                /\ UNCHANGED <<out_fd, count>>
           ELSE /\ out_fd' = Some(<<>>)
                /\ \E overflow_checks \in BOOLEAN :
                      LET difference == U64Sub(last_audio_byte(nm),
                                               first_audio_byte(nm),
                                               overflow_checks)
                      IN  IF difference.err # NoError
                          THEN /\ RawFail(difference.err)
                               /\ UNCHANGED count
                          ELSE /\ count' = difference.val
                               /\ IF sector_size(nm) = RAW96_SEC_SIZE
                                  THEN pc' = "copy_raw96" /\ UNCHANGED err
                                  ELSE IF sector_size(nm) = 0
                                  THEN RawFail(AudioReadError)
                                  ELSE pc' = "copy_raw" /\ UNCHANGED err
    /\ UNCHANGED <<stream, nm, trace, result, in_size>>
    /\ UNCHANGED <<img_path, cue_fd, index0_pos, cue_i, args>>

\* ReadWrite going on after a short write (faulty variant)
ReadWrite_short_write(len, keep, next) ==
    LET nbytes == FileRead(in_size, pos, len)
    IN  /\ pos' = pos + nbytes
        /\ IF nbytes # len
           THEN /\ RawFail(AudioReadError)
                /\ UNCHANGED <<out_fd, raw_bytes_read>>
           ELSE /\ raw_bytes_read' = raw_bytes_read + nbytes
                /\ \E written \in FileWrites(keep) :
                      /\ out_fd' = Some(Append(out_fd[1], <<pos, written>>))
                      /\ pc' = next /\ UNCHANGED err

\* One read of `len` bytes and the write of the first `keep` of them; the
\* copy function goes on at `next` if both are complete
ReadWrite(len, keep, next) ==
    LET nbytes == FileRead(in_size, pos, len)
    IN  /\ pos' = pos + nbytes
        /\ IF nbytes # len
           THEN /\ RawFail(AudioReadError)
                /\ UNCHANGED <<out_fd, raw_bytes_read>>
           ELSE /\ raw_bytes_read' = raw_bytes_read + nbytes
                /\ \E written \in FileWrites(keep) :
                      /\ out_fd' = Some(Append(out_fd[1], <<pos, written>>))
                      /\ IF written # keep
                         THEN RawFail(AudioWriteError)
                         ELSE pc' = next /\ UNCHANGED err

\* copy_raw96_audio: one iteration of while bytes_read < count
CopyRaw96Audio ==
    /\ pc = "copy_raw96"
    /\ U64Lt(raw_bytes_read, count)
    /\ ReadWrite(IN_BUF_SIZE, OUT_BUF_SIZE, "copy_raw96")
    /\ UNCHANGED <<stream, nm, trace, result, in_size, count>>
    /\ UNCHANGED <<img_path, cue_fd, index0_pos, cue_i, args>>

\* copy_raw96_audio returns Ok(bytes_read); assert_eq!(count, bytes_read)
CopyRaw96Return ==
    /\ pc = "copy_raw96"
    /\ ~U64Lt(raw_bytes_read, count)
    /\ IF count = U64(raw_bytes_read)
       THEN pc' = "raw_done" /\ UNCHANGED err
       ELSE RawFail(PanicAssert)
    /\ UNCHANGED <<stream, pos, nm, trace, result, gen_vars>>

\* copy_raw_audio: one iteration of while bytes_read + BUF_SIZE <= count
CopyRawAudio ==
    /\ pc = "copy_raw"
    /\ U64Le(raw_bytes_read + BUF_SIZE, count)
    /\ ReadWrite(BUF_SIZE, BUF_SIZE, "copy_raw")
    /\ UNCHANGED <<stream, nm, trace, result, in_size, count>>
    /\ UNCHANGED <<img_path, cue_fd, index0_pos, cue_i, args>>

\* copy_raw_audio: the last bytes, Ok(bytes_read), and
\* assert_eq!(count, bytes_read)
CopyRawLast ==
    /\ pc = "copy_raw"
    /\ ~U64Le(raw_bytes_read + BUF_SIZE, count)
    /\ ReadWrite(count.val - raw_bytes_read, count.val - raw_bytes_read,
                 "raw_done")
    /\ UNCHANGED <<stream, nm, trace, result, in_size, count>>
    /\ UNCHANGED <<img_path, cue_fd, index0_pos, cue_i, args>>

NextRaw ==
    \/ ExtractBegin
    \/ CopyRaw96Audio
    \/ CopyRaw96Return
    \/ CopyRawAudio
    \/ CopyRawLast

SpecRaw == InitRaw /\ [][NextRaw]_vars

----------------------------------------------------------------------------
(* Properties of the raw audio extractor *)

\* The DAOX track records of the metadata (none without a DAOX chunk)
DaoxTracks == IF nm.daox_chunk = None THEN <<>> ELSE nm.daox_chunk[1].tracks

\* The boundaries as C19 states them
StartOffset == IF DaoxTracks = <<>> THEN 0 ELSE DaoxTracks[1].index1
EndOffset ==
    IF DaoxTracks = <<>> THEN nm.chunk_offset
    ELSE DaoxTracks[Len(DaoxTracks)].track_end

\* The output file name could be derived, so that the count was computed
CountComputed ==
    /\ pc # "raw"
    /\ img_path.file_name # None
    /\ img_path.file_name[1].extension # Some("raw")

\* The bytes written to the output file so far
RECURSIVE RangesLength(_)
RangesLength(ranges) ==
    IF ranges = <<>> THEN 0
    ELSE Head(ranges)[2] + RangesLength(Tail(ranges))
BytesWritten == IF out_fd = None THEN 0 ELSE RangesLength(out_fd[1])

\* C19: the extractor starts at the index1 of the FIRST DAOX track (0
\* without DAOX chunk or tracks), ends at the track_end of the LAST DAOX
\* track (chunk_offset without DAOX chunk or tracks), and the number of
\* input bytes to copy is end minus start.
C19_BoundaryResolution ==
    /\ (pc \in {"copy_raw96", "copy_raw"} /\ raw_bytes_read = 0) =>
          pos = StartOffset
    /\ CountComputed =>
          /\ pc # "panicked" \/ err # PanicOverflow
          /\ count = U64(EndOffset - StartOffset)

\* C19 for the metadata whose end offset is not below the start offset:
\* there the boundaries and the count are as stated
C19_ExceptUnderflow ==
    /\ (pc \in {"copy_raw96", "copy_raw"} /\ raw_bytes_read = 0) =>
          pos = StartOffset
    /\ (CountComputed /\ EndOffset >= StartOffset) =>
          /\ count = U64(EndOffset - StartOffset)
          /\ pc = "panicked" => err = PanicAssert

\* The sector size the metadata reports is 0: the first DAOX track declares
\* 0, or there is no DAOX chunk, or the DAOX chunk has no tracks
SectorSizeZero == DaoxTracks = <<>> \/ DaoxTracks[1].sector_size = 0

\* C20: when the sector size reported by the metadata is 0,
\* extract_nrg_raw_audio (given a path it can derive the output name from)
\* fails with the audio read error and copies no byte.
C20_ZeroSectorSize ==
    (SectorSizeZero /\ CountComputed) =>
        /\ pc = "failed"
        /\ err = AudioReadError
        /\ raw_bytes_read = 0
        /\ BytesWritten = 0

\* C20 for the metadata whose end offset is not below the start offset
C20_ExceptUnderflow ==
    (SectorSizeZero /\ CountComputed /\ EndOffset >= StartOffset) =>
        /\ pc = "failed"
        /\ err = AudioReadError
        /\ raw_bytes_read = 0
        /\ BytesWritten = 0

\* With a zero sector size no byte is copied, whatever the outcome
C20_NoByteCopied ==
    SectorSizeZero => (raw_bytes_read = 0 /\ BytesWritten = 0)

\* The sector size the metadata reports (the first DAOX track's, or 0)
ReportedSectorSize ==
    IF DaoxTracks = <<>> THEN 0 ELSE DaoxTracks[1].sector_size

\* The ranges of in_fd a copy in units of `unit` bytes writes when it
\* keeps the first `keep` bytes of each of n units, from offset `from`
UnitRanges(from, unit, keep, n) ==
    [k \in 1..n |-> <<from + (k - 1) * unit, keep>>]

\* C21: with a first-track sector size of 2448 a successful extraction of
\* [start, end) writes ((end-start) div 2448) * 2352 bytes, the first 2352
\* bytes of each 2448-byte unit in turn, and success is never reported
\* after reading a number of bytes other than end-start.
C21_Raw96Stripped ==
    (pc = "raw_done" /\ ReportedSectorSize = 2448) =>
        /\ EndOffset >= StartOffset
        /\ raw_bytes_read = EndOffset - StartOffset
        /\ pos = EndOffset
        /\ BytesWritten = ((EndOffset - StartOffset) \div 2448) * 2352
        /\ out_fd[1] = UnitRanges(StartOffset, 2448, 2352,
                                  (EndOffset - StartOffset) \div 2448)

C21_Witness ==
    /\ pc = "raw_done"
    /\ ReportedSectorSize = 2448
    /\ StartOffset = 100
    /\ EndOffset = 100 + 2 * 2448
    /\ out_fd[1] = << <<100, 2352>>, <<2548, 2352>> >>

\* C22: with a first-track sector size of 2448, when the caller asked for
\* the sub-channel data to be preserved, every 2448-byte unit is written in
\* full: the output is the input range [start, end), of length end-start.
C22_Raw96Preserved ==
    (pc = "raw_done" /\ ReportedSectorSize = 2448
     /\ ~args.strip_subchannel) =>
        /\ BytesWritten = EndOffset - StartOffset
        /\ out_fd[1] = UnitRanges(StartOffset, 2448, 2448,
                                  (EndOffset - StartOffset) \div 2448)

\* The sector size sends the image through copy_raw_audio
PlainCopy == ReportedSectorSize # 0 /\ ReportedSectorSize # 2448

\* The ranges a complete copy of [start, end) writes: the full buffers,
\* then the last bytes
PlainRanges ==
    LET total == EndOffset - StartOffset
        full == total \div BUF_SIZE
    IN  UnitRanges(StartOffset, BUF_SIZE, BUF_SIZE, full)
        \o << <<StartOffset + full * BUF_SIZE, total - full * BUF_SIZE>> >>

\* The ranges written follow one another from the start offset
Contiguous(ranges) ==
    \A k \in 1..Len(ranges) :
        ranges[k][1] = (IF k = 1 THEN StartOffset
                        ELSE ranges[k - 1][1] + ranges[k - 1][2])

\* C23: with a nonzero first-track sector size other than 2448 a
\* successful extraction writes the input range [start, end) byte for
\* byte, end-start bytes, as full buffers followed by one last partial
\* write; a read or a write that transfers fewer bytes than requested
\* makes the extraction fail with AudioReadError or AudioWriteError, with
\* nothing retried or padded.
C23_PlainCopy ==
    (PlainCopy /\ CountComputed) =>
        /\ pc = "raw_done" =>
              /\ EndOffset >= StartOffset
              /\ EndOffset <= in_size
              /\ out_fd[1] = PlainRanges
              /\ Contiguous(out_fd[1])
              /\ BytesWritten = EndOffset - StartOffset
              /\ raw_bytes_read = EndOffset - StartOffset
              /\ pos = EndOffset
        /\ pc = "failed" =>
              /\ err \in {AudioReadError, AudioWriteError}
              /\ Contiguous(out_fd[1])
              /\ err = AudioReadError =>
                    /\ pos = in_size \/ pos = StartOffset
                    /\ count.wrapped \/ in_size < EndOffset
                    /\ BytesWritten = raw_bytes_read
                    /\ \A k \in 1..Len(out_fd[1]) :
                          out_fd[1][k][2] = BUF_SIZE
              /\ err = AudioWriteError =>
                    /\ out_fd[1] # <<>>
                    /\ BytesWritten = raw_bytes_read - 1
                    /\ BytesWritten = pos - StartOffset - 1
        /\ (pc \in {"copy_raw", "raw_done"}) =>
              /\ BytesWritten = raw_bytes_read
              /\ pos = StartOffset + raw_bytes_read
        /\ pc = "panicked" => err = PanicOverflow

C23_Witness ==
    /\ pc = "raw_done"
    /\ ReportedSectorSize = 2352
    /\ out_fd[1] = << <<100, BUF_SIZE>>, <<100 + BUF_SIZE, 100>> >>

\* A short write of the last bytes: AudioWriteError, nothing retried
C23_WitnessShortWrite ==
    /\ pc = "failed"
    /\ err = AudioWriteError
    /\ ReportedSectorSize = 2352
    /\ out_fd[1] = << <<100, BUF_SIZE>>, <<100 + BUF_SIZE, 99>> >>

----------------------------------------------------------------------------
(* Terminal outcomes of the chunk dispatcher *)

\* The iterations before the last one all decoded or skipped their chunk
EarlierIterationsSucceeded ==
    \A i \in 1..(Len(trace) - 1) :
        /\ trace[i].arm \in {"decode", "skip"}
        /\ trace[i].arm = "decode" => trace[i].val # None
        /\ trace[i + 1].at = trace[i].after

\* The successful decodes of the tag id, the failing iteration left out
Stored(id) == { i \in Occurrences(id) : trace[i].val # None }

\* The dispatcher returned Ok(()) right after the tag "END!"
ReturnedAfterEnd ==
    /\ trace # <<>>
    /\ LastEntry.arm = "end"
    /\ BytesAt(LastEntry.at, 4) = END
    /\ pos = LastEntry.at + 4
    /\ err = NoError

\* The dispatcher returned its first error: nothing decoded or stored by
\* the failing iteration, nothing read after it
ReturnedFirstError ==
    /\ err # NoError
    /\ ~ENABLED Next
    /\ trace # <<>> =>
          /\ LastEntry.val = None
          /\ \A id \in DecodedIds :
                nm[SlotOf(id)] =
                    (IF Stored(id) = {} THEN None
                     ELSE trace[Latest(Stored(id))].val)
          /\ Len(nm.skipped_chunks)
                 = Cardinality({ i \in 1..(Len(trace) - 1) :
                                     trace[i].arm = "skip" })

\* C24: the dispatcher ends in one of two ways: success, right after the
\* tag "END!" with the position just behind it, or the return of the first
\* error met; after the first failure (I/O, decode, unknown tag) no tag is
\* read and no chunk is decoded or stored.
C24_TwoOutcomes ==
    /\ pc \in {"start", "versioned", "chunks", "done", "failed"}
    /\ EarlierIterationsSucceeded
    /\ pc = "done" => ReturnedAfterEnd /\ ~ENABLED Next
    /\ pc = "failed" => ReturnedFirstError
    /\ (trace # <<>> /\ LastEntry.arm = "end") => pc = "done"

\* C24 with the third outcome: a decoder assertion that panics
C24_ExceptAssertPanic ==
    /\ EarlierIterationsSucceeded
    /\ pc = "done" => ReturnedAfterEnd /\ ~ENABLED Next
    /\ pc = "failed" => ReturnedFirstError /\ err # PanicAssert
    /\ (trace # <<>> /\ LastEntry.arm = "end") => pc = "done"
    /\ pc = "panicked" =>
          /\ ReturnedFirstError
          /\ err = PanicAssert
          /\ LastEntry.id \in {CUEX, DAOX}

----------------------------------------------------------------------------
(* The pending pre-gap position over the cue pass *)

\* *index0_pos after the iteration i of write_cue_tracks
PendingAfter(i) ==
    IF i < Len(trace) THEN trace[i + 1].pending ELSE index0_pos

\* The iterations of the cue pass (the trace of write_cue_tracks)
CuePass == IF pc \in {"cue_tracks", "cue_done", "panicked"}
           THEN 1..Len(trace) ELSE {}

\* A record skipped for its track number or for a negative position
IsSkipped(track) ==
    \/ track.track_number = 0 \/ track.track_number = 170
    \/ track.position_sectors < 0

\* C25: a record produces output if and only if its track number is neither
\* 0 nor 0xAA, its position is not negative and its index number is not 0;
\* a skipped record emits nothing and leaves the pending pre-gap position
\* as it is; an index-0 record that is not skipped emits nothing and sets
\* the pending position to its own position.
C25_RecordEffect ==
    \A i \in CuePass :
        LET e == trace[i]
        IN  /\ e.lines # <<>> <=> IsTrackStart(e.track)
            /\ IsSkipped(e.track) =>
                  /\ e.lines = <<>>
                  /\ PendingAfter(i) = e.pending
            /\ (~IsSkipped(e.track) /\ e.track.index_number = 0) =>
                  /\ e.lines = <<>>
                  /\ PendingAfter(i) = e.track.position_sectors

\* A position is pending, a skipped record leaves it, an index-0 record
\* replaces it
C25_Witness ==
    /\ pc = "cue_done"
    /\ Len(trace) = 3
    /\ trace[1].track = NrgCuexTrack(1, 1, 0, 0, 0)
    /\ trace[2].track = NrgCuexTrack(1, 1, 0, 0, -150)
    /\ trace[3].track = NrgCuexTrack(1, 2, 0, 0, 300)
    /\ trace[2].pending = 0 /\ trace[3].pending = 0
    /\ index0_pos = 300
    /\ Len(CueLines) = 1

\* The index-0 records that stored the position pending at iteration j:
\* not skipped, before j, with no track-start record in between
StoredFor(j) ==
    { k \in 1..(j - 1) :
        /\ ~IsSkipped(trace[k].track)
        /\ trace[k].track.index_number = 0
        /\ trace[k].track.position_sectors = trace[j].pending
        /\ \A l \in (k + 1)..(j - 1) : ~IsTrackStart(trace[l].track) }

HasIndex00(i) == \E k \in 1..Len(trace[i].lines) : IsIndex00(trace[i].lines[k])

\* C26: after a track-start record is processed the pending pre-gap
\* position is none (-1), whether or not an INDEX 00 line was written for
\* it; a stored index-0 position gives an INDEX 00 line for at most one
\* track-start record, the first that follows it.
C26_PendingCleared ==
    \A i \in CuePass \cap TrackStarts :
        /\ trace[i].err = NoError => PendingAfter(i) = -1
        /\ HasIndex00(i) =>
              /\ StoredFor(i) # {}
              /\ \A j \in CuePass \cap TrackStarts :
                    (j # i /\ HasIndex00(j)) =>
                        StoredFor(i) \cap StoredFor(j) = {}

\* The pre-gap 300 is not written for the track starting at 150, and is
\* not kept for the next track-start record
C26_Witness ==
    /\ pc = "cue_done"
    /\ Len(trace) = 3
    /\ trace[1].track = NrgCuexTrack(1, 2, 0, 0, 300)
    /\ trace[2].track = NrgCuexTrack(1, 2, 1, 0, 150)
    /\ trace[3].track = NrgCuexTrack(1, 2, 1, 0, 450)
    /\ trace[2].pending = 300 /\ ~HasIndex00(2)
    /\ trace[3].pending = -1 /\ ~HasIndex00(3)

----------------------------------------------------------------------------
(* The chunk decoders applied on their own to one chunk: the tag, the     *)
(* declared size, and what the file holds after it                        *)

MaxAfnmSize == 3     \* declared size and bytes of an AFNM chunk

\* The first n bytes of a body, n up to its length
Prefixes(body) == { SubSeq(body, 1, n) : n \in 0..Len(body) }

\* Byte strings of NUL and 'a' (97)
AfnmBytes == UNION { [1..n -> {0, 97}] : n \in 0..MaxAfnmSize }

\* One chunk from its tag on: declared sizes that fit the decoder and
\* sizes that do not, bodies shorter, equal and longer than declared
ChunkStreams ==
    { Chunk(CUEX, declared, body) :
        declared \in {0, 8, 12, 16},
        body \in Prefixes(CuexTrack1 \o CuexLeadOut) }
    \cup UNION { { Chunk(DAOX, declared, body) :
                     body \in Prefixes(DaoxHeader(declared) \o DaoxTrack) } :
                   declared \in {20, 22, 64} }
    \cup { Chunk(tag, declared, body) :
             tag \in {SINF, MTYP},
             declared \in {0, 4, 8},
             body \in Prefixes(U32Bytes(2) \o U32Bytes(9)) }
    \cup { Chunk(AFNM, declared, body) :
             declared \in 0..MaxAfnmSize, body \in AfnmBytes }

\* The tag was read by the dispatcher: fd is at the size field
InitChunk ==
    /\ stream \in ChunkStreams
    /\ pos = 4
    /\ pc = "chunk"
    /\ nm = NrgMetadata_new
    /\ err = NoError
    /\ trace = <<>>
    /\ result = None
    /\ GenIdle

\* try!(decoder(fd)) for the chunk of tag `tag`
DecodeChunk(tag, chunk) ==
    /\ pc = "chunk"
    /\ BytesAt(0, 4) = tag
    /\ result' = IF chunk.ok THEN Some(chunk.val) ELSE None
    /\ err' = chunk.err
    /\ pos' = chunk.pos
    /\ pc' = IF chunk.ok THEN "chunk_decoded"
             ELSE IF chunk.err.kind = "panic" THEN "chunk_panicked"
             ELSE "chunk_failed"
    /\ UNCHANGED <<stream, nm, trace>>
    /\ UNCHANGED gen_vars

DecodeChunkCuex == DecodeChunk(CUEX, read_nrg_cuex(stream, pos))
DecodeChunkDaox == DecodeChunk(DAOX, read_nrg_daox(stream, pos))
DecodeChunkSinf == DecodeChunk(SINF, read_nrg_sinf(stream, pos))
DecodeChunkMtyp == DecodeChunk(MTYP, read_nrg_mtyp(stream, pos))
DecodeChunkAfnm == DecodeChunk(AFNM, read_nrg_afnm(stream, pos))

NextChunk ==
    \/ DecodeChunkCuex
    \/ DecodeChunkDaox
    \/ DecodeChunkSinf
    \/ DecodeChunkMtyp
    \/ DecodeChunkAfnm

SpecChunk == InitChunk /\ [][NextChunk]_vars

\* The declared size of the chunk, its size field at offset 4
ChunkDeclared == BigEndian(BytesAt(4, 4))

\* C27: for each of the decoders of CUEX, DAOX, SINF, MTYP and AFNM a
\* successful decode leaves the position at the position of the size field
\* + 4 + the declared size (the next tag read is aligned); a SINF or MTYP
\* chunk of a declared size other than 4 is not decoded successfully with
\* another number of bytes consumed.
C27_DecodedAligned ==
    pc = "chunk_decoded" =>
        /\ pos = 4 + 4 + ChunkDeclared
        /\ result[1].size = ChunkDeclared

\* C27 for the decoders that count their bytes against the declared size;
\* read_nrg_sinf and read_nrg_mtyp read 4 bytes whatever the size says
C27_ExceptSinfMtyp ==
    pc = "chunk_decoded" =>
        /\ result[1].size = ChunkDeclared
        /\ BytesAt(0, 4) \in {CUEX, DAOX, AFNM} =>
              pos = 4 + 4 + ChunkDeclared
        /\ BytesAt(0, 4) \in {SINF, MTYP} => pos = 4 + 4 + 4

\* A SINF chunk of declared size 8 decoded with 4 bytes consumed
C27_WitnessSinf8 ==
    /\ pc = "chunk_decoded"
    /\ stream = Chunk(SINF, 8, U32Bytes(2) \o U32Bytes(9))
    /\ result[1] = [size |-> 8, nb_tracks |-> 2]
    /\ pos = 12

----------------------------------------------------------------------------
(* Termination of the chunk dispatcher *)

Returned == pc \in {"done", "failed", "panicked"}

\* One iteration of the loop of read_nrg_chunks: an iteration that
\* continues the loop has read the tag and the size and leaves fd at least
\* 8 bytes further; fd never moves backwards
LoopStep ==
    pc = "chunks" =>
        /\ pos' >= pos
        /\ pc' = "chunks" =>
              /\ pos + 8 <= Len(stream)
              /\ pos' >= pos + 8
              /\ Len(trace') <= Len(stream) \div 8
        /\ pc' = "done" => pos' = pos + 4
        /\ pc' # "chunks" => Returned'

----------------------------------------------------------------------------
(* The byte count of the extraction *)

\* C29: the subtraction last_audio_byte() - first_audio_byte() does not
\* underflow: when the last track's end offset is below the first track's
\* index1 offset, the extractor does not go on to copy a wrapped or
\* negative count.
C29_NoUnderflow ==
    /\ ~count.wrapped
    /\ err # PanicOverflow
    /\ EndOffset < StartOffset =>
          /\ pc \notin {"copy_raw96", "copy_raw", "raw_done"}
          /\ BytesWritten = 0

\* C29 for the metadata whose end offset is not below the start offset:
\* the count is exact
C29_ExceptEndBelowStart ==
    EndOffset >= StartOffset =>
        /\ ~count.wrapped
        /\ err # PanicOverflow
        /\ CountComputed => count.val = EndOffset - StartOffset

\* The two outcomes of an end offset below the start offset: the copy is
\* entered with the wrapped count (build without overflow checks)
C29_WitnessWrapped ==
    /\ pc = "copy_raw"
    /\ StartOffset = 100 /\ EndOffset = 50
    /\ count = U64Wrapped(50)

----------------------------------------------------------------------------
(* The TITLE lookup of the cue pass *)

\* The AFNM name list write_cue_tracks is given
AfnmNames == nm.afnm_chunk[1].tracks

\* C30: the TITLE lookup afnm_tracks[track_number - 1] made for each
\* track-start record is within the bounds of the AFNM name list: the cue
\* pass never indexes past the end of the list when the CUEX chunk names a
\* track number above the number of AFNM names.
C30_TitleInBounds ==
    /\ pc = "panicked" => err # PanicBounds
    /\ \A i \in CuePass \cap TrackStarts :
          /\ trace[i].track.track_number - 1 < Len(AfnmNames)
          /\ \E k \in 1..Len(trace[i].lines) :
                IsTitleLine(trace[i].lines[k])

\* C30 for the name lists that hold a name for every track number of the
\* CUEX chunk: there every track-start record gets its TITLE line
C30_ExceptShortList ==
    \A i \in CuePass \cap TrackStarts :
        trace[i].track.track_number <= Len(AfnmNames) =>
            /\ trace[i].err = NoError
            /\ \E k \in 1..Len(trace[i].lines) :
                  IsTitleLine(trace[i].lines[k])

\* Track 1 with an empty name list: the TRACK line is written, then the
\* lookup panics
C30_WitnessPanic ==
    /\ pc = "panicked" /\ err = PanicBounds
    /\ AfnmNames = <<>>
    /\ LastEntry.track = NrgCuexTrack(1, 1, 1, 0, 0)
    /\ Len(LastEntry.lines) = 1 /\ IsTrackLine(LastEntry.lines[1])

\* The pair of the failing lookup comes out of the decoders: an AFNM chunk
\* of declared size 0 decodes to an empty name list
C30_WitnessEmptyAfnm ==
    /\ pc = "chunk_decoded"
    /\ stream = Chunk(AFNM, 0, <<>>)
    /\ result[1] = [size |-> 0, tracks |-> <<>>]

====
